---------------------------- MODULE Spec2Model ----------------------------
(***************************************************************************)
(* A model of the share-cost backend (backend/src): the capability token   *)
(* model of auth.rs and the request handlers of routes.rs.                 *)
(*                                                                         *)
(* Conventions.                                                            *)
(*  - Option<T> is a record: [tag |-> "None"] or [tag |-> "Some", val].    *)
(*    Option<bool> is one of the three strings "None", "SomeTrue",         *)
(*    "SomeFalse".                                                         *)
(*  - A JWT is a record of what the codec reads from it: whether it parses,*)
(*    whether its signature was made with JWT_SECRET, and the JSON claims  *)
(*    object (g, exp, and the optional p object with its optional flags).  *)
(*  - Time is counted in days.                                             *)
(*  - An f64 is the binary64 value, kept in fixed point (see f64 below).    *)
(***************************************************************************)
EXTENDS Integers, Sequences, FiniteSets, TLC

VARIABLES
    groups,          \* table groups: set of rows [id, currency]
    members,         \* table members: sequence of rows, in insertion order
    expenses,        \* table expenses: sequence of rows, in insertion order
    expense_splits,  \* table expense_splits: sequence of rows [expense_id, member_id]
    next_id,         \* Uuid::new_v4: the next unused id of each kind; and tick,
                     \* the next reading of Utc::now() as a created_at
    now,             \* chrono::Utc::now(), in days
    response,        \* the last request handled and its response
    origin,          \* the token T0 at the start of a derivation chain
    bearer,          \* the token the client currently holds
    depth,           \* number of share links derived from origin so far
    input,           \* inputs of the pure functions under check
    output,          \* the last pure function applied and its result
    reader,          \* a get_balances call in progress: its position and locals
    calls,           \* the other calls in progress, by slot: position, queries left
    writes,          \* the mutating calls begun around a get_balances call
    history          \* what the model remembers of the calls made

tables == <<groups, members, expenses, expense_splits>>
store == <<groups, members, expenses, expense_splits, next_id>>
service == <<reader, calls, writes, history>>
vars == <<groups, members, expenses, expense_splits, next_id, now, response,
          origin, bearer, depth, input, output, reader, calls, writes, history>>

-----------------------------------------------------------------------------
(* Bounds of the model. *)

MaxDepth == 2      \* share links derived in a row from one token
MaxLedgerExpenses == 2   \* expense rows of the group whose balances are computed
MaxExpenses == 1   \* expense rows ever inserted while the handlers run
MaxWrites == 2     \* mutating calls made around one get_balances call
MaxInFlight == 2   \* calls rocket serves at the same time
MaxCalls == 4      \* calls made in one history of the service

(* Program constants. *)

TokenLifetimeDays == 3650

GroupIds == {"g1", "g2"}

(* Uuid::new_v4(): the n-th id drawn of each kind. *)
GroupIdPool == <<"g1", "g2">>
MemberIdPool == <<"m1", "m2", "m3">>
ExpenseIdPool == <<"e1", "e2", "e3", "e4">>

-----------------------------------------------------------------------------
(* auth.rs: Permissions *)

None == "None"
SomeTrue == "SomeTrue"
SomeFalse == "SomeFalse"
OptBool == {None, SomeTrue, SomeFalse}

Some(b) == IF b THEN SomeTrue ELSE SomeFalse

Fields == {"can_delete_group", "can_manage_members", "can_update_payment",
           "can_add_expenses", "can_edit_expenses"}

Permissions == [Fields -> OptBool]

default_true == Some(TRUE)

all ==
    [can_delete_group   |-> Some(TRUE),
     can_manage_members |-> Some(TRUE),
     can_update_payment |-> Some(TRUE),
     can_add_expenses   |-> Some(TRUE),
     can_edit_expenses  |-> Some(TRUE)]

resolve_deny(opt) == IF opt = None THEN FALSE ELSE opt = SomeTrue

resolve(opt) == IF opt = None THEN TRUE ELSE opt = SomeTrue

has_delete_group(p)   == resolve(p.can_delete_group)
has_manage_members(p) == resolve(p.can_manage_members)
has_update_payment(p) == resolve(p.can_update_payment)
has_add_expenses(p)   == resolve(p.can_add_expenses)
has_edit_expenses_reads_add(p) == resolve(p.can_add_expenses)

has_edit_expenses(p)  == resolve(p.can_edit_expenses)

has_all(p) ==
    /\ has_delete_group(p) /\ has_manage_members(p) /\ has_update_payment(p)
    /\ has_add_expenses(p) /\ has_edit_expenses(p)

cap_by_requested(self, caller) ==
    [can_delete_group   |-> Some(has_delete_group(self)),
     can_manage_members |-> Some(has_manage_members(self)),
     can_update_payment |-> Some(has_update_payment(self)),
     can_add_expenses   |-> Some(has_add_expenses(self)),
     can_edit_expenses  |-> Some(has_edit_expenses(self))]

cap_by_caller(self, caller) ==
    [can_delete_group   |-> Some(has_delete_group(caller)),
     can_manage_members |-> Some(has_manage_members(caller)),
     can_update_payment |-> Some(has_update_payment(caller)),
     can_add_expenses   |-> Some(has_add_expenses(caller)),
     can_edit_expenses  |-> Some(has_edit_expenses(caller))]

cap_by(self, caller) ==
    [can_delete_group   |-> Some(has_delete_group(self)   /\ has_delete_group(caller)),
     can_manage_members |-> Some(has_manage_members(self) /\ has_manage_members(caller)),
     can_update_payment |-> Some(has_update_payment(self) /\ has_update_payment(caller)),
     can_add_expenses   |-> Some(has_add_expenses(self)   /\ has_add_expenses(caller)),
     can_edit_expenses  |-> Some(has_edit_expenses(self)  /\ has_edit_expenses(caller))]

union_with_and(self, other) ==
    [can_delete_group   |-> Some(has_delete_group(self)   /\ has_delete_group(other)),
     can_manage_members |-> Some(has_manage_members(self) /\ has_manage_members(other)),
     can_update_payment |-> Some(has_update_payment(self) /\ has_update_payment(other)),
     can_add_expenses   |-> Some(has_add_expenses(self)   /\ has_add_expenses(other)),
     can_edit_expenses  |-> Some(has_edit_expenses(self)  /\ has_edit_expenses(other))]

union_with(self, other) ==
    [can_delete_group   |-> Some(has_delete_group(self)   \/ has_delete_group(other)),
     can_manage_members |-> Some(has_manage_members(self) \/ has_manage_members(other)),
     can_update_payment |-> Some(has_update_payment(self) \/ has_update_payment(other)),
     can_add_expenses   |-> Some(has_add_expenses(self)   \/ has_add_expenses(other)),
     can_edit_expenses  |-> Some(has_edit_expenses(self)  \/ has_edit_expenses(other))]

(* The five has_X accessors, indexed by field name. *)
has(p, f) ==
    CASE f = "can_delete_group"   -> has_delete_group(p)
      [] f = "can_manage_members" -> has_manage_members(p)
      [] f = "can_update_payment" -> has_update_payment(p)
      [] f = "can_add_expenses"   -> has_add_expenses(p)
      [] f = "can_edit_expenses"  -> has_edit_expenses(p)

-----------------------------------------------------------------------------
(* auth.rs: the serde representation of Permissions and Claims.            *)
(* Serialising skips a None flag (skip_serializing_if); deserialising      *)
(* gives an omitted flag default_true. The compact name and its alias name *)
(* the same flag, so one key per flag is kept.                             *)

ShortName ==
    [can_delete_group   |-> "dg",
     can_manage_members |-> "mm",
     can_update_payment |-> "up",
     can_add_expenses   |-> "ae",
     can_edit_expenses  |-> "ee"]

ShortNames == {ShortName[f] : f \in Fields}

FieldOf(k) == CHOOSE f \in Fields : ShortName[f] = k

(* JSON objects holding any subset of the five flags. *)
WirePermissions == UNION {[S -> BOOLEAN] : S \in SUBSET ShortNames}

Permissions_serialize(p) ==
    [k \in {ShortName[f] : f \in {x \in Fields : p[x] # None}}
        |-> p[FieldOf(k)] = SomeTrue]

Permissions_deserialize(w) ==
    [f \in Fields |-> IF ShortName[f] \in DOMAIN w THEN Some(w[ShortName[f]])
                      ELSE default_true]

NoneOf == [tag |-> "None"]
SomeOf(v) == [tag |-> "Some", val |-> v]

(* Claims: group_id, exp, permissions: Option<Permissions>. *)
Claims_serialize(claims) ==
    [g   |-> claims.group_id,
     exp |-> claims.exp,
     p   |-> IF claims.permissions.tag = "None" THEN NoneOf
             ELSE SomeOf(Permissions_serialize(claims.permissions.val))]

Claims_deserialize(json) ==
    [group_id    |-> json.g,
     exp         |-> json.exp,
     permissions |-> IF json.p.tag = "None" THEN NoneOf
                     ELSE SomeOf(Permissions_deserialize(json.p.val))]

effective_permissions(claims) ==
    IF claims.permissions.tag = "Some" THEN claims.permissions.val ELSE all

-----------------------------------------------------------------------------
(* auth.rs: the token codec *)

generate_token(group_id, permissions, today) ==
    [fmt    |-> "jwt",
     sig    |-> "JWT_SECRET",
     claims |-> Claims_serialize([group_id    |-> group_id,
                                  exp         |-> today + TokenLifetimeDays,
                                  permissions |-> permissions])]

validate_token_no_expiry(token, today) ==
    IF token.fmt # "jwt" THEN [ok |-> FALSE, err |-> "InvalidToken"]
    ELSE IF token.sig # "JWT_SECRET" THEN [ok |-> FALSE, err |-> "InvalidSignature"]
    ELSE [ok |-> TRUE, claims |-> Claims_deserialize(token.claims)]

validate_token(token, today) ==
    IF token.fmt # "jwt" THEN [ok |-> FALSE, err |-> "InvalidToken"]
    ELSE IF token.sig # "JWT_SECRET" THEN [ok |-> FALSE, err |-> "InvalidSignature"]
    ELSE IF token.claims.exp < today THEN [ok |-> FALSE, err |-> "ExpiredSignature"]
    ELSE [ok |-> TRUE, claims |-> Claims_deserialize(token.claims)]

(* The Authorization header: absent, or a string scheme ++ token. *)
NoHeader == [present |-> FALSE]
Header(scheme, token) == [present |-> TRUE, scheme |-> scheme, token |-> token]
Schemes == {"Bearer ", "bearer ", "Basic "}

from_request(header, today) ==
    IF header.present
    THEN IF header.scheme = "Bearer "
         THEN LET v == validate_token(header.token, today) IN
              IF v.ok
              THEN [outcome     |-> "Success",
                    group_id    |-> v.claims.group_id,
                    permissions |-> effective_permissions(v.claims)]
              ELSE [outcome |-> "Error", status |-> "Unauthorized", error |-> "Invalid"]
         ELSE [outcome |-> "Error", status |-> "Unauthorized", error |-> "Invalid"]
    ELSE [outcome |-> "Error", status |-> "Unauthorized", error |-> "Missing"]

-----------------------------------------------------------------------------
(* routes.rs: the token handlers *)

PermissionsResponse(p) ==
    [can_delete_group   |-> has_delete_group(p),
     can_manage_members |-> has_manage_members(p),
     can_update_payment |-> has_update_payment(p),
     can_add_expenses   |-> has_add_expenses(p),
     can_edit_expenses  |-> has_edit_expenses(p)]

get_permissions(auth) == [status |-> "Ok", permissions |-> PermissionsResponse(auth.permissions)]

generate_share_link_uncapped(auth, request, today) ==
    LET requested == [can_delete_group   |-> request.can_delete_group,
                      can_manage_members |-> request.can_manage_members,
                      can_update_payment |-> request.can_update_payment,
                      can_add_expenses   |-> request.can_add_expenses,
                      can_edit_expenses  |-> request.can_edit_expenses]
    IN  [status      |-> "Ok",
         token       |-> generate_token(auth.group_id, SomeOf(requested), today),
         permissions |-> PermissionsResponse(requested)]

generate_share_link(auth, request, today) ==
    LET requested == [can_delete_group   |-> request.can_delete_group,
                      can_manage_members |-> request.can_manage_members,
                      can_update_payment |-> request.can_update_payment,
                      can_add_expenses   |-> request.can_add_expenses,
                      can_edit_expenses  |-> request.can_edit_expenses]
        effective == cap_by(requested, auth.permissions)
    IN  [status      |-> "Ok",
         token       |-> generate_token(auth.group_id, SomeOf(effective), today),
         permissions |-> PermissionsResponse(effective)]

merge_token_any_group(auth, request, today) ==
    LET other == validate_token(request.other_token, today) IN
    IF ~other.ok THEN [status |-> "BadRequest"]
    ELSE LET merged == union_with(auth.permissions, effective_permissions(other.claims))
         IN  [status      |-> "Ok",
              token       |-> generate_token(auth.group_id, SomeOf(merged), today),
              permissions |-> PermissionsResponse(merged)]

merge_token(auth, request, today) ==
    LET other == validate_token(request.other_token, today) IN
    IF ~other.ok THEN [status |-> "BadRequest"]
    ELSE IF other.claims.group_id # auth.group_id THEN [status |-> "BadRequest"]
    ELSE LET merged == union_with(auth.permissions, effective_permissions(other.claims))
         IN  [status      |-> "Ok",
              token       |-> generate_token(auth.group_id, SomeOf(merged), today),
              permissions |-> PermissionsResponse(merged)]

-----------------------------------------------------------------------------
(* f64, as routes.rs uses it for amounts and balances: IEEE 754 binary64,  *)
(* round to nearest, ties to even.                                         *)
(*                                                                         *)
(* A value is [neg, mag]: its sign and its magnitude, the magnitude being  *)
(* <<a, b, c>> for (a * Limb^2 + b * Limb + c) * 2^-60 with b, c < Limb.   *)
(* Every f64 of magnitude 0 or in [2^-8, 2^11) is such a value, and the    *)
(* arithmetic below is that of binary64 on them, bit for bit: the exact    *)
(* result, rounded to 53 significant bits. The amounts and exchange rates  *)
(* of the model are whole numbers and its split counts are small, so every *)
(* value the model reaches is in that range. -0.0 is not represented:      *)
(* balances start at +0.0 and no sum of theirs is -0.0.                    *)

Limb == 2^20

carry(a, b, c) ==
    LET b0 == b + (c \div Limb)
    IN  <<a + (b0 \div Limb), b0 % Limb, c % Limb>>

less(x, y) ==
    \/ x[1] < y[1]
    \/ x[1] = y[1] /\ x[2] < y[2]
    \/ x[1] = y[1] /\ x[2] = y[2] /\ x[3] < y[3]

Zero == [neg |-> FALSE, mag |-> <<0, 0, 0>>]

(* The exact sum of two values. *)
plus(x, y) ==
    IF x.neg = y.neg
    THEN [neg |-> x.neg,
          mag |-> carry(x.mag[1] + y.mag[1], x.mag[2] + y.mag[2], x.mag[3] + y.mag[3])]
    ELSE IF x.mag = y.mag THEN Zero
    ELSE IF less(x.mag, y.mag)
    THEN [neg |-> y.neg,
          mag |-> carry(y.mag[1] - x.mag[1], y.mag[2] - x.mag[2], y.mag[3] - x.mag[3])]
    ELSE [neg |-> x.neg,
          mag |-> carry(x.mag[1] - y.mag[1], x.mag[2] - y.mag[2], x.mag[3] - y.mag[3])]

(* Rounding to 53 significant bits. v is the exact result cut to a whole   *)
(* number of 2^-60 and frac says what was cut: 0 nothing, 1 less than half *)
(* of 2^-60, 2 half of it, 3 more. d is the number of bits v.mag has       *)
(* beyond 53.                                                              *)
round(v, frac) ==
    LET a   == v.mag[1]
        c   == v.mag[3]
        d   == CHOOSE k \in 0..18 :
                   /\ (a \div 2^13) < 2^k
                   /\ k = 0 \/ (a \div 2^13) >= 2^(k - 1)
        q   == 2^d
        low == c % q
        odd == (c \div q) % 2 = 1
        up  == IF d = 0 THEN frac = 3 \/ (frac = 2 /\ odd)
               ELSE low * 2 > q \/ (low * 2 = q /\ (frac > 0 \/ odd))
    IN  [neg |-> v.neg,
         mag |-> carry(a, v.mag[2], (c - low) + (IF up THEN q ELSE 0))]

(* -x *)
neg(x) == IF x.mag = Zero.mag THEN x ELSE [x EXCEPT !.neg = ~@]

(* x + y; x - y is add(x, neg(y)). *)
add(x, y) == round(plus(x, y), 0)

(* x * y, for y a whole number. *)
mul(x, y) ==
    LET k == y.mag[1] \div Limb IN
    round([neg |-> x.neg # y.neg,
           mag |-> carry(x.mag[1] * k, x.mag[2] * k, x.mag[3] * k)], 0)

(* x / n, for n = count as f64, count a small whole number. *)
div(x, n) ==
    LET rb   == (x.mag[1] % n) * Limb + x.mag[2]
        rc   == (rb % n) * Limb + x.mag[3]
        r    == rc % n
        frac == IF r = 0 THEN 0 ELSE IF 2 * r < n THEN 1 ELSE IF 2 * r = n THEN 2 ELSE 3
    IN  round([neg |-> x.neg, mag |-> <<x.mag[1] \div n, rb \div n, rc \div n>>], frac)

(* BigDecimal::to_f64 of a stored NUMERIC holding a whole number. *)
to_f64(decimal) ==
    [neg |-> decimal < 0,
     mag |-> <<(IF decimal < 0 THEN 0 - decimal ELSE decimal) * Limb, 0, 0>>]

-----------------------------------------------------------------------------
(* routes.rs: get_balances.                                                *)
(*                                                                         *)
(* Rows carry the columns the handlers read: description, expense_date and *)
(* the created_at of an expense are left out.                              *)

(* balances.iter_mut().find(|b| b.user_id == id): the first match, or 0. *)
RECURSIVE find(_, _, _)
find(balances, id, i) ==
    IF i > Len(balances) THEN 0
    ELSE IF balances[i].user_id = id THEN i
    ELSE find(balances, id, i + 1)

add_assign_overwrite(balances, id, delta) ==
    LET i == find(balances, id, 1) IN
    IF i = 0 THEN balances ELSE [balances EXCEPT ![i].balance = delta]

add_assign_appends(balances, id, delta) ==
    LET i == find(balances, id, 1) IN
    IF i = 0
    THEN Append(balances, [user_id |-> id, user_name |-> id, balance |-> delta])
    ELSE [balances EXCEPT ![i].balance = add(@, delta)]

(* if let Some(b) = find(id) { b.balance += delta }; b.balance -= x is     *)
(* this with delta = -x.                                                   *)
add_assign(balances, id, delta) ==
    LET i == find(balances, id, 1) IN
    IF i = 0 THEN balances ELSE [balances EXCEPT ![i].balance = add(@, delta)]

split_amount_undivided(amount, split_count) == amount

(* amount / split_count, split_count being splits.len() as f64. *)
split_amount(amount, split_count) == div(amount, split_count)

for_each_split_first_only(balances, splits, k, delta) ==
    IF k > Len(splits) THEN balances
    ELSE add_assign(balances, splits[k].member_id, delta)

(* for split in splits { member.balance += delta } *)
RECURSIVE for_each_split(_, _, _, _)
for_each_split(balances, splits, k, delta) ==
    IF k > Len(splits) THEN balances
    ELSE for_each_split(add_assign(balances, splits[k].member_id, delta),
                        splits, k + 1, delta)

(* SELECT member_id FROM expense_splits WHERE expense_id = $1 *)
fetch_splits(table, expense_id) ==
    SelectSeq(table, LAMBDA r : r.expense_id = expense_id)

apply_expense_transfer_as_expense(balances, expense_row, splits) ==
    LET amount      == mul(to_f64(expense_row.amount), to_f64(expense_row.exchange_rate))
        split_count == Len(splits)
    IN  CASE expense_row.expense_type = "income" ->
               IF split_count = 0 THEN balances
               ELSE for_each_split(add_assign(balances, expense_row.paid_by, neg(amount)),
                                   splits, 1, split_amount(amount, split_count))
          [] OTHER ->
               IF split_count = 0 THEN balances
               ELSE for_each_split(add_assign(balances, expense_row.paid_by, amount),
                                   splits, 1, neg(split_amount(amount, split_count)))

apply_expense_income_as_expense(balances, expense_row, splits) ==
    LET amount      == mul(to_f64(expense_row.amount), to_f64(expense_row.exchange_rate))
        split_count == Len(splits)
    IN  CASE expense_row.expense_type = "transfer" ->
               LET b1 == add_assign(balances, expense_row.paid_by, amount) IN
               IF expense_row.transfer_to.tag = "Some"
               THEN add_assign(b1, expense_row.transfer_to.val, neg(amount))
               ELSE b1
          [] OTHER ->
               IF split_count = 0 THEN balances
               ELSE for_each_split(add_assign(balances, expense_row.paid_by, amount),
                                   splits, 1, neg(split_amount(amount, split_count)))

apply_expense_payer_before_check(balances, expense_row, splits) ==
    LET amount      == mul(to_f64(expense_row.amount), to_f64(expense_row.exchange_rate))
        split_count == Len(splits)
    IN  CASE expense_row.expense_type = "transfer" ->
               LET b1 == add_assign(balances, expense_row.paid_by, amount) IN
               IF expense_row.transfer_to.tag = "Some"
               THEN add_assign(b1, expense_row.transfer_to.val, neg(amount))
               ELSE b1
          [] expense_row.expense_type = "income" ->
               LET b1 == add_assign(balances, expense_row.paid_by, neg(amount)) IN
               IF split_count = 0 THEN b1
               ELSE for_each_split(b1, splits, 1, split_amount(amount, split_count))
          [] OTHER ->
               LET b1 == add_assign(balances, expense_row.paid_by, amount) IN
               IF split_count = 0 THEN b1
               ELSE for_each_split(b1, splits, 1, neg(split_amount(amount, split_count)))

apply_expense_transfer_one_leg(balances, expense_row, splits) ==
    LET amount      == mul(to_f64(expense_row.amount), to_f64(expense_row.exchange_rate))
        split_count == Len(splits)
    IN  CASE expense_row.expense_type = "transfer" ->
               add_assign(balances, expense_row.paid_by, amount)
          [] expense_row.expense_type = "income" ->
               IF split_count = 0 THEN balances
               ELSE for_each_split(add_assign(balances, expense_row.paid_by, neg(amount)),
                                   splits, 1, split_amount(amount, split_count))
          [] OTHER ->
               IF split_count = 0 THEN balances
               ELSE for_each_split(add_assign(balances, expense_row.paid_by, amount),
                                   splits, 1, neg(split_amount(amount, split_count)))

(* One iteration of the loop over expense_rows. *)
apply_expense(balances, expense_row, splits) ==
    LET raw_amount    == to_f64(expense_row.amount)
        exchange_rate == to_f64(expense_row.exchange_rate)
        amount        == mul(raw_amount, exchange_rate)
        paid_by       == expense_row.paid_by
        split_count   == Len(splits)
    IN  CASE expense_row.expense_type = "transfer" ->
               LET b1 == add_assign(balances, paid_by, amount) IN
               IF expense_row.transfer_to.tag = "Some"
               THEN add_assign(b1, expense_row.transfer_to.val, neg(amount))
               ELSE b1
          [] expense_row.expense_type = "income" ->
               IF split_count = 0 THEN balances
               ELSE for_each_split(add_assign(balances, paid_by, neg(amount)),
                                   splits, 1, split_amount(amount, split_count))
          [] OTHER ->
               IF split_count = 0 THEN balances
               ELSE for_each_split(add_assign(balances, paid_by, amount),
                                   splits, 1, neg(split_amount(amount, split_count)))

RECURSIVE for_each_expense(_, _, _, _)
for_each_expense(balances, expense_rows, i, splits_table) ==
    IF i > Len(expense_rows) THEN balances
    ELSE for_each_expense(
            apply_expense(balances, expense_rows[i],
                          fetch_splits(splits_table, expense_rows[i].id)),
            expense_rows, i + 1, splits_table)

(* The orders in which a SELECT without ORDER BY may return n rows. *)
RowOrders(n) == {o \in [1..n -> 1..n] : \A i, j \in 1..n : o[i] = o[j] => i = j}

init_balances_of_table(member_rows) ==
    LET stored == SelectSeq(members, LAMBDA m : \E i \in 1..Len(member_rows) :
                                                   m.group_id = member_rows[i].group_id)
    IN  [i \in 1..Len(stored) |->
            [user_id |-> stored[i].id, user_name |-> stored[i].name, balance |-> Zero]]

(* member_rows.iter().map(|m| Balance { .., balance: 0.0 }).collect() *)
init_balances(member_rows) ==
    [i \in 1..Len(member_rows) |->
        [user_id   |-> member_rows[i].id,
         user_name |-> member_rows[i].name,
         balance   |-> Zero]]

(* The rows of a SELECT in the order the database returns them. *)
Permuted(rows, order) == [i \in 1..Len(rows) |-> rows[order[i]]]

(* get_balances on the tables as they are (no query of another call        *)
(* between its fetches), every query succeeding: neither SELECT has an     *)
(* ORDER BY, so the member rows come back in the order `member_order` and  *)
(* the expense rows in the order `order`.                                  *)
get_balances(auth, member_order, order) ==
    LET member_rows  == Permuted(SelectSeq(members, LAMBDA m : m.group_id = auth.group_id),
                                 member_order)
        expense_rows == Permuted(SelectSeq(expenses, LAMBDA e : e.group_id = auth.group_id),
                                 order)
    IN  [status       |-> "Ok",
         member_rows  |-> member_rows,
         expense_rows |-> expense_rows,
         body         |-> for_each_expense(init_balances(member_rows), expense_rows,
                                           1, expense_splits)]

-----------------------------------------------------------------------------
(* routes.rs: the handlers that read and write the tables.                 *)
(*                                                                         *)
(* A handler awaits each of its queries on the pool, in no transaction,    *)
(* and rocket serves requests concurrently: between two queries of one     *)
(* call the queries of other calls run, and each query either succeeds or  *)
(* fails (map_err turns a failure into InternalServerError and `?` ends    *)
(* the handler there, leaving what earlier queries wrote).                 *)
(*                                                                         *)
(* A handler is modelled as its first step, from the guard to the query    *)
(* after its first SELECT, and the queries it goes on to run, one step     *)
(* each. The operator named after the handler is the first step: given     *)
(* whether the SELECT succeeds (db_ok), it is the status the handler       *)
(* answers with at once (queries empty) or will answer with once the       *)
(* queries have run, in order, and `ids`, the id counters after the ids    *)
(* the step draws.                                                         *)

(* Uuid::parse_str on a path segment. *)
NotAUuid == "not-a-uuid"
parse_str(segment) ==
    IF segment = NotAUuid THEN [ok |-> FALSE] ELSE [ok |-> TRUE, uuid |-> segment]

unwrap_or(opt, default) == IF opt.tag = "Some" THEN opt.val ELSE default

NoBody == [kind |-> "none"]
NoPath == "-"

(* Err(status), before any query that writes. *)
Refused(status) ==
    [status |-> status, queries |-> <<>>, body |-> NoBody, ids |-> next_id]

(* SELECT ... FROM groups WHERE id = $1 *)
group_rows(group_id) == {g \in groups : g.id = group_id}

(* DELETE FROM expense_splits WHERE expense_id = $1 *)
delete_splits(table, expense_id) ==
    SelectSeq(table, LAMBDA r : r.expense_id # expense_id)

insert_splits_always(expense_id, request) ==
    [k \in 1..Len(request.split_between) |->
        [sql        |-> "INSERT INTO expense_splits",
         expense_id |-> expense_id,
         member_id  |-> request.split_between[k]]]

(* INSERT INTO expense_splits ..., one query per member of split_between,  *)
(* in order; none for a transfer.                                          *)
insert_splits(expense_id, request) ==
    IF request.expense_type # "transfer"
    THEN [k \in 1..Len(request.split_between) |->
             [sql        |-> "INSERT INTO expense_splits",
              expense_id |-> expense_id,
              member_id  |-> request.split_between[k]]]
    ELSE <<>>

RECURSIVE IndexOf(_, _, _)
IndexOf(rows, id, i) ==
    IF i > Len(rows) THEN 0
    ELSE IF rows[i].id = id THEN i
    ELSE IndexOf(rows, id, i + 1)

(* POST /groups: no guard and no SELECT. All members of the call get the   *)
(* one created_at read at its start; the token is made after the last      *)
(* INSERT.                                                                 *)
create_group(request) ==
    LET group_id   == GroupIdPool[next_id.group]
        created_at == next_id.tick
        currency   == unwrap_or(request.currency, "EUR")
        n          == Len(request.member_names)
    IN  [status  |-> "Ok",
         queries |->
            <<[sql |-> "INSERT INTO groups",
               row |-> [id |-> group_id, currency |-> currency]]>> \o
            [k \in 1..n |->
                [sql |-> "INSERT INTO members",
                 row |-> [id           |-> MemberIdPool[next_id.member + k - 1],
                          group_id     |-> group_id,
                          name         |-> request.member_names[k],
                          paypal_email |-> NoneOf,
                          iban         |-> NoneOf,
                          created_at   |-> created_at]]],
         body    |-> [kind  |-> "token",
                      token |-> generate_token(group_id, SomeOf(all), now)],
         ids     |-> [next_id EXCEPT !.group = @ + 1, !.member = @ + n,
                                     !.tick = @ + 1]]

get_current_group(auth, db_ok) ==
    IF ~db_ok THEN Refused("InternalServerError")
    ELSE IF group_rows(auth.group_id) = {} THEN Refused("NotFound")
    ELSE [status  |-> "Ok",
          queries |-> <<[sql      |-> "SELECT FROM members ORDER BY created_at",
                         group_id |-> auth.group_id]>>,
          body    |-> NoBody,
          ids     |-> next_id]

(* Utc::now() is read when the INSERT is built, after the SELECT. *)
add_member(auth, request, db_ok) ==
    IF ~has_manage_members(auth.permissions) THEN Refused("Forbidden")
    ELSE IF ~db_ok THEN Refused("InternalServerError")
    ELSE IF group_rows(auth.group_id) = {} THEN Refused("NotFound")
    ELSE [status  |-> "Ok",
          queries |-> <<[sql |-> "INSERT INTO members",
                         row |-> [id           |-> MemberIdPool[next_id.member],
                                  group_id     |-> auth.group_id,
                                  name         |-> request.name,
                                  paypal_email |-> NoneOf,
                                  iban         |-> NoneOf,
                                  created_at   |-> next_id.tick]],
                        [sql      |-> "SELECT FROM members ORDER BY created_at",
                         group_id |-> auth.group_id]>>,
          body    |-> NoBody,
          ids     |-> [next_id EXCEPT !.member = @ + 1, !.tick = @ + 1]]

update_member_payment(auth, member_id, request, db_ok) ==
    IF ~has_update_payment(auth.permissions) THEN Refused("Forbidden")
    ELSE LET member_uuid == parse_str(member_id) IN
    IF ~member_uuid.ok THEN Refused("BadRequest")
    ELSE IF ~db_ok THEN Refused("InternalServerError")
    ELSE IF ~\E i \in 1..Len(members) :
                members[i].id = member_uuid.uuid /\ members[i].group_id = auth.group_id
    THEN Refused("NotFound")
    ELSE [status  |-> "Ok",
          queries |-> <<[sql |-> "UPDATE members",
                         id  |-> member_uuid.uuid,
                         set |-> [paypal_email |-> request.paypal_email,
                                  iban         |-> request.iban]]>>,
          body    |-> NoBody,
          ids     |-> next_id]

create_expense_no_group_lookup(auth, request, db_ok) ==
    IF ~has_add_expenses(auth.permissions) THEN Refused("Forbidden")
    ELSE LET expense_id == ExpenseIdPool[next_id.expense]
             drawn      == [next_id EXCEPT !.expense = @ + 1]
         IN
    IF ~db_ok THEN [Refused("InternalServerError") EXCEPT !.ids = drawn]
    ELSE [status  |-> "Ok",
          queries |->
             <<[sql |-> "INSERT INTO expenses",
                row |-> [id            |-> expense_id,
                         group_id      |-> auth.group_id,
                         amount        |-> request.amount,
                         paid_by       |-> request.paid_by,
                         expense_type  |-> request.expense_type,
                         transfer_to   |-> request.transfer_to,
                         currency      |-> unwrap_or(request.currency, "EUR"),
                         exchange_rate |-> unwrap_or(request.exchange_rate, 1)]]>>
             \o insert_splits(expense_id, request),
          body    |-> NoBody,
          ids     |-> drawn]

(* The id is drawn before the SELECT, which is a fetch_one: no group row   *)
(* is an error of the query. BigDecimal::try_from(f64) fails for NaN and   *)
(* infinities only, which no request of the model carries.                 *)
create_expense(auth, request, db_ok) ==
    IF ~has_add_expenses(auth.permissions) THEN Refused("Forbidden")
    ELSE LET expense_id == ExpenseIdPool[next_id.expense]
             drawn      == [next_id EXCEPT !.expense = @ + 1]
         IN
    IF ~db_ok \/ group_rows(auth.group_id) = {}
    THEN [Refused("InternalServerError") EXCEPT !.ids = drawn]
    ELSE LET group_row == CHOOSE g \in group_rows(auth.group_id) : TRUE IN
         [status  |-> "Ok",
          queries |->
             <<[sql |-> "INSERT INTO expenses",
                row |-> [id            |-> expense_id,
                         group_id      |-> auth.group_id,
                         amount        |-> request.amount,
                         paid_by       |-> request.paid_by,
                         expense_type  |-> request.expense_type,
                         transfer_to   |-> request.transfer_to,
                         currency      |-> unwrap_or(request.currency, group_row.currency),
                         exchange_rate |-> unwrap_or(request.exchange_rate, 1)]]>>
             \o insert_splits(expense_id, request),
          body    |-> NoBody,
          ids     |-> drawn]

update_expense_keep_splits(auth, expense_id, request, db_ok) ==
    IF ~has_edit_expenses(auth.permissions) THEN Refused("Forbidden")
    ELSE LET expense_uuid == parse_str(expense_id) IN
    IF ~expense_uuid.ok THEN Refused("BadRequest")
    ELSE IF ~db_ok THEN Refused("InternalServerError")
    ELSE IF ~\E i \in 1..Len(expenses) :
                expenses[i].id = expense_uuid.uuid /\ expenses[i].group_id = auth.group_id
    THEN Refused("NotFound")
    ELSE LET existing == expenses[IndexOf(expenses, expense_uuid.uuid, 1)] IN
         [status  |-> "Ok",
          queries |->
             <<[sql |-> "UPDATE expenses",
                id  |-> expense_uuid.uuid,
                set |-> [amount        |-> request.amount,
                         paid_by       |-> request.paid_by,
                         expense_type  |-> request.expense_type,
                         transfer_to   |-> request.transfer_to,
                         currency      |-> unwrap_or(request.currency, existing.currency),
                         exchange_rate |-> unwrap_or(request.exchange_rate,
                                                     existing.exchange_rate)]]>>
             \o insert_splits(expense_uuid.uuid, request),
          body    |-> NoBody,
          ids     |-> next_id]

update_expense(auth, expense_id, request, db_ok) ==
    IF ~has_edit_expenses(auth.permissions) THEN Refused("Forbidden")
    ELSE LET expense_uuid == parse_str(expense_id) IN
    IF ~expense_uuid.ok THEN Refused("BadRequest")
    ELSE IF ~db_ok THEN Refused("InternalServerError")
    ELSE IF ~\E i \in 1..Len(expenses) :
                expenses[i].id = expense_uuid.uuid /\ expenses[i].group_id = auth.group_id
    THEN Refused("NotFound")
    ELSE LET existing == expenses[IndexOf(expenses, expense_uuid.uuid, 1)] IN
         [status  |-> "Ok",
          queries |->
             <<[sql |-> "UPDATE expenses",
                id  |-> expense_uuid.uuid,
                set |-> [amount        |-> request.amount,
                         paid_by       |-> request.paid_by,
                         expense_type  |-> request.expense_type,
                         transfer_to   |-> request.transfer_to,
                         currency      |-> unwrap_or(request.currency, existing.currency),
                         exchange_rate |-> unwrap_or(request.exchange_rate,
                                                     existing.exchange_rate)]],
               [sql        |-> "DELETE FROM expense_splits",
                expense_id |-> expense_uuid.uuid]>>
             \o insert_splits(expense_uuid.uuid, request),
          body    |-> NoBody,
          ids     |-> next_id]

delete_expense_any_group(auth, expense_id, db_ok) ==
    IF ~has_edit_expenses(auth.permissions) THEN Refused("Forbidden")
    ELSE LET expense_uuid == parse_str(expense_id) IN
    IF ~expense_uuid.ok THEN Refused("BadRequest")
    ELSE IF ~db_ok THEN Refused("InternalServerError")
    ELSE IF ~\E i \in 1..Len(expenses) : expenses[i].id = expense_uuid.uuid
    THEN Refused("NotFound")
    ELSE [status  |-> "NoContent",
          queries |-> <<[sql |-> "DELETE FROM expense_splits",
                         expense_id |-> expense_uuid.uuid],
                        [sql |-> "DELETE FROM expenses", id |-> expense_uuid.uuid]>>,
          body    |-> NoBody,
          ids     |-> next_id]

delete_expense(auth, expense_id, db_ok) ==
    IF ~has_edit_expenses(auth.permissions) THEN Refused("Forbidden")
    ELSE LET expense_uuid == parse_str(expense_id) IN
    IF ~expense_uuid.ok THEN Refused("BadRequest")
    ELSE IF ~db_ok THEN Refused("InternalServerError")
    ELSE IF ~\E i \in 1..Len(expenses) :
                expenses[i].id = expense_uuid.uuid /\ expenses[i].group_id = auth.group_id
    THEN Refused("NotFound")
    ELSE [status  |-> "NoContent",
          queries |-> <<[sql |-> "DELETE FROM expense_splits",
                         expense_id |-> expense_uuid.uuid],
                        [sql |-> "DELETE FROM expenses", id |-> expense_uuid.uuid]>>,
          body    |-> NoBody,
          ids     |-> next_id]

(* No SELECT: the four DELETEs follow the guard. *)
delete_group(auth) ==
    IF ~has_delete_group(auth.permissions) THEN Refused("Forbidden")
    ELSE [status  |-> "NoContent",
          queries |-> <<[sql |-> "DELETE FROM expense_splits OF GROUP",
                         group_id |-> auth.group_id],
                        [sql |-> "DELETE FROM expenses OF GROUP",
                         group_id |-> auth.group_id],
                        [sql |-> "DELETE FROM members OF GROUP",
                         group_id |-> auth.group_id],
                        [sql |-> "DELETE FROM groups", group_id |-> auth.group_id]>>,
          body    |-> NoBody,
          ids     |-> next_id]

(* .execute(pool): one query that writes, on the tables as they are when   *)
(* it runs.                                                                *)
execute(query) ==
    CASE query.sql = "INSERT INTO groups" ->
           /\ groups' = groups \cup {query.row}
           /\ UNCHANGED <<members, expenses, expense_splits>>
      [] query.sql = "INSERT INTO members" ->
           /\ members' = Append(members, query.row)
           /\ UNCHANGED <<groups, expenses, expense_splits>>
      [] query.sql = "UPDATE members" ->
           /\ members' = [i \in 1..Len(members) |->
                            IF members[i].id = query.id
                            THEN [members[i] EXCEPT
                                     !.paypal_email = query.set.paypal_email,
                                     !.iban         = query.set.iban]
                            ELSE members[i]]
           /\ UNCHANGED <<groups, expenses, expense_splits>>
      [] query.sql = "INSERT INTO expenses" ->
           /\ expenses' = Append(expenses, query.row)
           /\ UNCHANGED <<groups, members, expense_splits>>
      [] query.sql = "INSERT INTO expense_splits" ->
           /\ expense_splits' = Append(expense_splits,
                                       [expense_id |-> query.expense_id,
                                        member_id  |-> query.member_id])
           /\ UNCHANGED <<groups, members, expenses>>
      [] query.sql = "UPDATE expenses" ->
           /\ expenses' = [i \in 1..Len(expenses) |->
                             IF expenses[i].id = query.id
                             THEN [id            |-> expenses[i].id,
                                   group_id      |-> expenses[i].group_id,
                                   amount        |-> query.set.amount,
                                   paid_by       |-> query.set.paid_by,
                                   expense_type  |-> query.set.expense_type,
                                   transfer_to   |-> query.set.transfer_to,
                                   currency      |-> query.set.currency,
                                   exchange_rate |-> query.set.exchange_rate]
                             ELSE expenses[i]]
           /\ UNCHANGED <<groups, members, expense_splits>>
      [] query.sql = "DELETE FROM expense_splits" ->
           /\ expense_splits' = delete_splits(expense_splits, query.expense_id)
           /\ UNCHANGED <<groups, members, expenses>>
      [] query.sql = "DELETE FROM expenses" ->
           /\ expenses' = SelectSeq(expenses, LAMBDA e : e.id # query.id)
           /\ UNCHANGED <<groups, members, expense_splits>>
      [] query.sql = "DELETE FROM expense_splits OF GROUP" ->
           /\ expense_splits' =
                 SelectSeq(expense_splits,
                           LAMBDA r : ~\E i \in 1..Len(expenses) :
                                         /\ expenses[i].id = r.expense_id
                                         /\ expenses[i].group_id = query.group_id)
           /\ UNCHANGED <<groups, members, expenses>>
      [] query.sql = "DELETE FROM expenses OF GROUP" ->
           /\ expenses' = SelectSeq(expenses, LAMBDA e : e.group_id # query.group_id)
           /\ UNCHANGED <<groups, members, expense_splits>>
      [] query.sql = "DELETE FROM members OF GROUP" ->
           /\ members' = SelectSeq(members, LAMBDA m : m.group_id # query.group_id)
           /\ UNCHANGED <<groups, expenses, expense_splits>>
      [] query.sql = "DELETE FROM groups" ->
           /\ groups' = {g \in groups : g.id # query.group_id}
           /\ UNCHANGED <<members, expenses, expense_splits>>
      [] OTHER ->
           UNCHANGED <<groups, members, expenses, expense_splits>>

(* SELECT ... FROM members WHERE group_id = $1 ORDER BY created_at: the    *)
(* answers the query may give, rows of equal created_at in any order.      *)
fetch_all(query) ==
    IF query.sql = "SELECT FROM members ORDER BY created_at"
    THEN LET matching == SelectSeq(members, LAMBDA m : m.group_id = query.group_id)
             n        == Len(matching)
         IN  {[kind    |-> "members",
               members |-> [i \in 1..n |-> matching[order[i]]]] :
                 order \in {o \in RowOrders(n) :
                              \A i, j \in 1..n :
                                 i < j => matching[o[i]].created_at
                                             <= matching[o[j]].created_at}}
    ELSE {NoBody}

-----------------------------------------------------------------------------
(* Calls in progress. calls[s] is the call rocket is serving in slot s:    *)
(* idle, or "run" with the queries it has yet to execute from the k-th on, *)
(* or "done" with the response the client is about to receive. Receiving a *)
(* response reads and writes no table, so the model delivers a response    *)
(* before it takes any other step.                                         *)
(*                                                                         *)
(* history is what the model remembers about the calls made, for stating   *)
(* properties of them; the program keeps no such record.                   *)
(*   begun     the number of calls begun;                                  *)
(*   issued    the groups whose create_group has returned a token;         *)
(*   disturbed the groups one of whose calls began while another call on   *)
(*             the group was in progress;                                  *)
(*   failed    the groups one of whose calls had a query fail;             *)
(*   deleted   the groups for which a delete_group ran from its guard to   *)
(*             NoContent with no other call on the group in progress;      *)
(*   split_of  the pairs <<e, g>> such that a call on group g has inserted *)
(*             a split row of expense e;                                   *)
(*   orphaned  the expenses of a group that had a split row and no expense *)
(*             row when a delete_group of the group, not deleted before,   *)
(*             ran its DELETE FROM expense_splits.                         *)

Idle == [pc |-> "idle"]

NoHistory == [begun |-> 0, issued |-> {}, disturbed |-> {}, failed |-> {},
              deleted |-> {}, split_of |-> {}, orphaned |-> {}]

(* The expenses of the groups `group` that have a split row and no expense *)
(* row.                                                                    *)
Orphans(group) ==
    {expense_splits[k].expense_id :
        k \in {j \in 1..Len(expense_splits) :
                 /\ \E g \in group : <<expense_splits[j].expense_id, g>> \in history.split_of
                 /\ \A i \in 1..Len(expenses) :
                       expenses[i].id # expense_splits[j].expense_id}}

(* What the model remembers of the query a call runs. *)
Remember(call, query, last) ==
    IF query.sql = "INSERT INTO expense_splits"
    THEN [history EXCEPT !.split_of = @ \cup {<<query.expense_id, g>> : g \in call.group}]
    ELSE IF query.sql = "DELETE FROM expense_splits OF GROUP"
            /\ call.group \cap history.deleted = {}
    THEN [history EXCEPT !.orphaned = @ \cup Orphans(call.group)]
    ELSE IF last /\ call.op = "create_group"
    THEN [history EXCEPT !.issued = @ \cup call.group]
    ELSE IF last /\ call.op = "delete_group" /\ call.alone
    THEN [history EXCEPT !.deleted = @ \cup call.group]
    ELSE history

(* The group a call works on. *)
GroupOf(op, auth, plan) ==
    IF op = "create_group" THEN {plan.queries[1].row.id}
    ELSE IF auth.outcome = "Success" THEN {auth.group_id}
    ELSE {}

Running(s, group) == calls[s].pc = "run" /\ calls[s].group = group

(* No response is waiting to be delivered. *)
Quiet == \A t \in DOMAIN calls : calls[t].pc # "done"

(* Slot s is the first free one. *)
Free(s) ==
    /\ Quiet
    /\ history.begun < MaxCalls
    /\ calls[s].pc = "idle"
    /\ \A t \in DOMAIN calls : t < s => calls[t].pc # "idle"

(* The first step of a call in slot s: rocket runs the guard and the       *)
(* handler up to its second await.                                         *)
Call(s, op, auth, path, plan, db_ok) ==
    LET group    == GroupOf(op, auth, plan)
        crowded  == \E t \in DOMAIN calls : t # s /\ group # {} /\ Running(t, group)
        finished == plan.queries = <<>>
    IN  /\ Free(s)
        /\ calls' = [t \in DOMAIN calls |->
                       IF t = s
                       THEN [pc      |-> IF finished THEN "done" ELSE "run",
                             op      |-> op,
                             caller  |-> auth,
                             path    |-> path,
                             group   |-> group,
                             status  |-> plan.status,
                             queries |-> plan.queries,
                             k       |-> 1,
                             body    |-> plan.body,
                             alone   |-> ~crowded]
                       ELSE IF group # {} /\ Running(t, group)
                       THEN [calls[t] EXCEPT !.alone = FALSE]
                       ELSE calls[t]]
        /\ next_id' = plan.ids
        /\ history' = [history EXCEPT
                          !.begun = @ + 1,
                          !.disturbed = IF crowded THEN @ \cup group ELSE @,
                          !.failed = IF db_ok THEN @ ELSE @ \cup group]
        /\ UNCHANGED <<groups, members, expenses, expense_splits>>

(* What a call leaves in its slot once it has its response. *)
Done(call, status, body) ==
    [call EXCEPT !.pc = "done", !.status = status, !.queries = <<>>, !.k = 1,
                 !.body = body]

(* The call in slot s runs its next query, which succeeds; after the last  *)
(* one it has its response.                                                *)
Execute(s) ==
    /\ Quiet
    /\ calls[s].pc = "run"
    /\ LET call  == calls[s]
           query == call.queries[call.k]
           last  == call.k = Len(call.queries)
       IN  /\ execute(query)
           /\ \E answer \in fetch_all(query) :
                LET body == IF answer = NoBody THEN call.body ELSE answer IN
                calls' = [calls EXCEPT ![s] =
                            IF last THEN Done(call, call.status, body)
                            ELSE [call EXCEPT !.k = @ + 1, !.body = body]]
           /\ history' = Remember(call, query, last)
    /\ UNCHANGED next_id

(* The next query of the call in slot s fails: map_err gives               *)
(* InternalServerError and the handler returns, its earlier queries done.  *)
Fail(s) ==
    /\ Quiet
    /\ calls[s].pc = "run"
    /\ calls' = [calls EXCEPT ![s] = Done(calls[s], "InternalServerError", NoBody)]
    /\ history' = [history EXCEPT !.failed = @ \cup calls[s].group]
    /\ UNCHANGED <<groups, members, expenses, expense_splits, next_id>>

(* The client receives the response. *)
Return(s) ==
    /\ calls[s].pc = "done"
    /\ calls' = [calls EXCEPT ![s] = Idle]
    /\ UNCHANGED <<groups, members, expenses, expense_splits, next_id, history>>

(* A request of each route, with the header, path segment and body given;  *)
(* a request the guard turns away does not reach the handler.              *)
Guarded(auth, plan) == IF auth.outcome = "Error" THEN Refused(auth.status) ELSE plan

(* db_ok = FALSE is a step only where the handler has a SELECT to fail. *)
MayFail(plan, plan_ok, db_ok) == db_ok \/ plan # plan_ok

CallCreateGroup(s, request) ==
    /\ Free(s)
    /\ next_id.group <= Len(GroupIdPool)
    /\ next_id.member + Len(request.member_names) - 1 <= Len(MemberIdPool)
    /\ Call(s, "create_group", [outcome |-> "None"], NoPath, create_group(request), TRUE)

CallGetCurrentGroup(s, header, db_ok) ==
    LET auth == from_request(header, now)
        plan == Guarded(auth, get_current_group(auth, db_ok))
    IN  /\ Free(s)
        /\ MayFail(plan, Guarded(auth, get_current_group(auth, TRUE)), db_ok)
        /\ Call(s, "get_current_group", auth, NoPath, plan, db_ok)

CallAddMember(s, header, request, db_ok) ==
    /\ Free(s)
    /\ next_id.member <= Len(MemberIdPool)
    /\ LET auth == from_request(header, now)
           plan == Guarded(auth, add_member(auth, request, db_ok))
       IN  /\ MayFail(plan, Guarded(auth, add_member(auth, request, TRUE)), db_ok)
           /\ Call(s, "add_member", auth, NoPath, plan, db_ok)

CallUpdateMemberPayment(s, header, member_id, request, db_ok) ==
    LET auth == from_request(header, now)
        plan == Guarded(auth, update_member_payment(auth, member_id, request, db_ok))
    IN  /\ Free(s)
        /\ MayFail(plan, Guarded(auth, update_member_payment(auth, member_id, request, TRUE)),
                   db_ok)
        /\ Call(s, "update_member_payment", auth, member_id, plan, db_ok)

CallCreateExpense(s, header, request, db_ok) ==
    /\ Free(s)
    /\ next_id.expense <= Len(ExpenseIdPool)
    /\ LET auth == from_request(header, now)
           plan == Guarded(auth, create_expense(auth, request, db_ok))
       IN  /\ MayFail(plan, Guarded(auth, create_expense(auth, request, TRUE)), db_ok)
           /\ Call(s, "create_expense", auth, NoPath, plan, db_ok)

CallUpdateExpense(s, header, expense_id, request, db_ok) ==
    LET auth == from_request(header, now)
        plan == Guarded(auth, update_expense(auth, expense_id, request, db_ok))
    IN  /\ Free(s)
        /\ MayFail(plan, Guarded(auth, update_expense(auth, expense_id, request, TRUE)),
                   db_ok)
        /\ Call(s, "update_expense", auth, expense_id, plan, db_ok)

CallDeleteExpense(s, header, expense_id, db_ok) ==
    LET auth == from_request(header, now)
        plan == Guarded(auth, delete_expense(auth, expense_id, db_ok))
    IN  /\ Free(s)
        /\ MayFail(plan, Guarded(auth, delete_expense(auth, expense_id, TRUE)), db_ok)
        /\ Call(s, "delete_expense", auth, expense_id, plan, db_ok)

CallDeleteGroup(s, header) ==
    LET auth == from_request(header, now)
        plan == Guarded(auth, delete_group(auth))
    IN  Call(s, "delete_group", auth, NoPath, plan, TRUE)

-----------------------------------------------------------------------------
(* Idle values of the variables a specification does not use. *)

NoToken == [fmt |-> "none"]
NoResponse == [op |-> "none"]
NoInput == [kind |-> "none"]
NoOutput == [op |-> "none"]
NoReader == [pc |-> "idle"]
NoCalls == <<Idle>>

InitStore ==
    /\ groups = {}
    /\ members = <<>>
    /\ expenses = <<>>
    /\ expense_splits = <<>>
    /\ next_id = [group |-> 1, member |-> 1, expense |-> 1, tick |-> 1]

-----------------------------------------------------------------------------
(* SpecPerms: the Permissions transforms and the two token handlers that   *)
(* use them, applied to every pair of Permissions values.                  *)

InitPerms ==
    /\ InitStore
    /\ now = 0
    /\ response = NoResponse
    /\ origin = NoToken
    /\ bearer = NoToken
    /\ depth = 0
    /\ input \in [a : Permissions, b : Permissions]
    /\ output = NoOutput
    /\ reader = NoReader
    /\ calls = NoCalls
    /\ writes = <<>>
    /\ history = NoHistory

ApplyCapBy ==
    /\ output' = [op |-> "cap_by", val |-> cap_by(input.a, input.b)]
    /\ UNCHANGED <<service, store, now, response, origin, bearer, depth, input>>

ApplyUnionWith ==
    /\ output' = [op |-> "union_with", val |-> union_with(input.a, input.b)]
    /\ UNCHANGED <<service, store, now, response, origin, bearer, depth, input>>

(* Claims carrying input.a, or legacy Claims without permissions. *)
ApplyEffectivePermissions ==
    /\ \E perms \in {NoneOf, SomeOf(input.a)} :
         LET claims == [group_id |-> "g1", exp |-> TokenLifetimeDays, permissions |-> perms]
         IN  output' = [op     |-> "effective_permissions",
                        claims |-> claims,
                        val    |-> effective_permissions(claims)]
    /\ UNCHANGED <<service, store, now, response, origin, bearer, depth, input>>

(* POST /groups/current/share with request input.a, by the holder of a     *)
(* token minted with permissions input.b.                                  *)
ApplyShareLink ==
    /\ LET token == generate_token("g1", SomeOf(input.b), now)
           auth  == from_request(Header("Bearer ", token), now)
       IN  output' = [op     |-> "generate_share_link",
                      caller |-> auth,
                      result |-> generate_share_link(auth, input.a, now)]
    /\ UNCHANGED <<service, store, now, response, origin, bearer, depth, input>>

(* POST /groups/current/merge-token by the holder of a token minted with   *)
(* input.a, presenting a token of the same group minted with input.b.      *)
ApplyMergeToken ==
    /\ LET token == generate_token("g1", SomeOf(input.a), now)
           other == generate_token("g1", SomeOf(input.b), now)
           auth  == from_request(Header("Bearer ", token), now)
       IN  output' = [op     |-> "merge_token",
                      caller |-> auth,
                      other  |-> other,
                      result |-> merge_token(auth, [other_token |-> other], now)]
    /\ UNCHANGED <<service, store, now, response, origin, bearer, depth, input>>

NextPerms ==
    \/ ApplyCapBy
    \/ ApplyUnionWith
    \/ ApplyEffectivePermissions
    \/ ApplyShareLink
    \/ ApplyMergeToken

SpecPerms == InitPerms /\ [][NextPerms]_vars

-----------------------------------------------------------------------------
(* C2: cap_by never exceeds either operand: a capability that              *)
(* cap_by(A, B) resolves as granted is resolved as granted by A and by B;  *)
(* and a share link requested with manage_members = true by a caller whose *)
(* manage_members resolves to false carries manage_members = false.        *)
C2_CapByNeverExceeds ==
    /\ output.op = "cap_by" =>
         \A f \in Fields :
            has(output.val, f) => (has(input.a, f) /\ has(input.b, f))
    /\ (/\ output.op = "generate_share_link"
        /\ input.a.can_manage_members = SomeTrue
        /\ ~has_manage_members(output.caller.permissions)) =>
         /\ output.result.status = "Ok"
         /\ output.result.token.claims.p.tag = "Some"
         /\ "mm" \in DOMAIN output.result.token.claims.p.val
         /\ output.result.token.claims.p.val["mm"] = FALSE
         /\ output.result.permissions.can_manage_members = FALSE

C2_Witness ==
    /\ output.op = "generate_share_link"
    /\ input.a.can_manage_members = SomeTrue
    /\ input.a.can_add_expenses = None
    /\ input.b.can_manage_members = SomeFalse
    /\ output.result.permissions.can_manage_members = FALSE
    /\ output.result.permissions.can_add_expenses = TRUE

(* C3: union_with never falls below either operand: a capability that A or *)
(* B resolves as granted is resolved as granted by union_with(A, B); and   *)
(* merging X(add_expenses = true, edit_expenses = false) with              *)
(* Y(add_expenses = false, edit_expenses = true) issues a token with both. *)
C3_UnionNeverBelow ==
    /\ output.op = "union_with" =>
         \A f \in Fields :
            (has(input.a, f) \/ has(input.b, f)) => has(output.val, f)
    /\ (/\ output.op = "merge_token"
        /\ input.a.can_add_expenses = SomeTrue /\ input.a.can_edit_expenses = SomeFalse
        /\ input.b.can_add_expenses = SomeFalse /\ input.b.can_edit_expenses = SomeTrue) =>
         /\ output.result.status = "Ok"
         /\ output.result.token.claims.p.tag = "Some"
         /\ {"ae", "ee"} \subseteq DOMAIN output.result.token.claims.p.val
         /\ output.result.token.claims.p.val["ae"] = TRUE
         /\ output.result.token.claims.p.val["ee"] = TRUE

C3_Witness ==
    /\ output.op = "merge_token"
    /\ input.a.can_add_expenses = SomeTrue /\ input.a.can_edit_expenses = SomeFalse
    /\ input.b.can_add_expenses = SomeFalse /\ input.b.can_edit_expenses = SomeTrue
    /\ input.a.can_delete_group = SomeFalse /\ input.b.can_delete_group = SomeFalse
    /\ output.result.permissions.can_add_expenses
    /\ output.result.permissions.can_edit_expenses
    /\ ~output.result.permissions.can_delete_group

(* C7: legacy defaulting: effective_permissions returns a Permissions for  *)
(* every Claims; for Claims without permissions it grants all five         *)
(* capabilities; and a field that is None resolves as granted.             *)
C7_LegacyDefaulting ==
    output.op = "effective_permissions" =>
        /\ output.val \in Permissions
        /\ output.claims.permissions.tag = "None" =>
              /\ has_all(output.val)
              /\ \A f \in Fields : has(output.val, f) = TRUE
        /\ output.claims.permissions.tag = "Some" =>
              output.val = output.claims.permissions.val
        /\ \A f \in Fields : output.val[f] = None => has(output.val, f) = TRUE

C7_Witness ==
    /\ output.op = "effective_permissions"
    /\ output.claims.permissions.tag = "Some"
    /\ output.val.can_delete_group = None
    /\ output.val.can_add_expenses = SomeFalse
    /\ has_delete_group(output.val)
    /\ ~has_add_expenses(output.val)

(* C8 as stated: cap_by(A, all()) == A for every A, unset fields included. *)
C8_CapByAllIsIdentity ==
    (output.op = "cap_by" /\ input.b = all) => output.val = input.a

(* C8, amended: cap_by(A, all()) resolves every capability as A does, has  *)
(* no unset field, and equals A exactly when A has no unset field.         *)
C8_CapByAllResolvesAsA ==
    (output.op = "cap_by" /\ input.b = all) =>
        /\ \A f \in Fields : has(output.val, f) = has(input.a, f)
        /\ \A f \in Fields : output.val[f] # None
        /\ (output.val = input.a) <=> (\A f \in Fields : input.a[f] # None)

C8_Witness ==
    /\ output.op = "cap_by"
    /\ input.b = all
    /\ input.a.can_delete_group = None
    /\ input.a.can_add_expenses = SomeFalse
    /\ output.val.can_delete_group = SomeTrue
    /\ output.val.can_add_expenses = SomeFalse

-----------------------------------------------------------------------------
(* SpecAuth: a client holds a token of some group (minted by this or an    *)
(* earlier version of the server, so with any subset of the flags, or with *)
(* no permissions object at all) and derives share links from it, each     *)
(* from the one before.                                                    *)

OriginTokens ==
    {[fmt    |-> "jwt",
      sig    |-> "JWT_SECRET",
      claims |-> [g |-> g, exp |-> TokenLifetimeDays, p |-> p]] :
        g \in GroupIds,
        p \in {NoneOf} \cup {SomeOf(w) : w \in WirePermissions}}

InitAuth ==
    /\ InitStore
    /\ now = 0
    /\ response = NoResponse
    /\ origin \in OriginTokens
    /\ bearer = origin
    /\ depth = 0
    /\ input = NoInput
    /\ output = NoOutput
    /\ reader = NoReader
    /\ calls = NoCalls
    /\ writes = <<>>
    /\ history = NoHistory

(* POST /groups/current/share: the guard, then the handler. The client     *)
(* keeps the token it is given.                                            *)
GenerateShareLink ==
    /\ depth < MaxDepth
    /\ \E request \in Permissions :
         LET auth == from_request(Header("Bearer ", bearer), now) IN
         IF auth.outcome = "Error"
         THEN /\ response' = [op |-> "generate_share_link", status |-> auth.status]
              /\ UNCHANGED <<bearer, depth>>
         ELSE LET r == generate_share_link(auth, request, now) IN
              /\ response' = [op |-> "generate_share_link", status |-> r.status]
              /\ bearer' = r.token
              /\ depth' = depth + 1
    /\ UNCHANGED <<service, store, now, origin, input, output>>

(* Time passes until the held token has expired. *)
Tick ==
    /\ now <= bearer.claims.exp
    /\ now' = bearer.claims.exp + 1
    /\ UNCHANGED <<service, store, response, origin, bearer, depth, input, output>>

NextAuth ==
    \/ GenerateShareLink
    \/ Tick

SpecAuth == InitAuth /\ [][NextAuth]_vars

(* The capabilities a token's claims resolve as granted. *)
Granted(token) ==
    {f \in Fields : has(effective_permissions(Claims_deserialize(token.claims)), f)}

(* C1: non-escalation through repeated derivation: the token at the end of *)
(* a chain of share links grants only capabilities that the token at its   *)
(* start grants, and is for the same group.                                *)
C1_NoEscalationAlongChain ==
    /\ Granted(bearer) \subseteq Granted(origin)
    /\ bearer.claims.g = origin.claims.g
    /\ bearer.fmt = "jwt" /\ bearer.sig = "JWT_SECRET"

C1_Witness ==
    /\ depth = 2
    /\ origin.claims.p.tag = "Some"
    /\ origin.claims.g = "g2"
    /\ Granted(origin) = Fields \ {"can_delete_group"}
    /\ Granted(bearer) = {"can_add_expenses"}
    /\ response.status = "Ok"

-----------------------------------------------------------------------------
(* SpecCreds: the request guard and merge_token on every credential of a   *)
(* small universe: tokens that do not parse, tokens signed with another    *)
(* key, expired tokens, tokens of either group.                            *)

Today == 1

CredPermissions ==
    {NoneOf,
     SomeOf(<<>>),
     SomeOf([ae |-> TRUE, ee |-> FALSE]),
     SomeOf([dg |-> FALSE, ae |-> FALSE, ee |-> TRUE])}

CredTokens ==
    {[fmt |-> "garbage"]} \cup
    {[fmt    |-> "jwt",
      sig    |-> sig,
      claims |-> [g |-> g, exp |-> exp, p |-> p]] :
        sig \in {"JWT_SECRET", "other-secret"},
        g \in GroupIds,
        exp \in {Today - 1, Today, Today + TokenLifetimeDays},
        p \in CredPermissions}

CredHeaders ==
    {NoHeader} \cup {Header(scheme, t) : scheme \in Schemes, t \in CredTokens}

InitCreds ==
    /\ InitStore
    /\ now = Today
    /\ response = NoResponse
    /\ origin = NoToken
    /\ bearer = NoToken
    /\ depth = 0
    /\ input \in [header : CredHeaders, other_token : CredTokens]
    /\ output = NoOutput
    /\ reader = NoReader
    /\ calls = NoCalls
    /\ writes = <<>>
    /\ history = NoHistory

(* GET /groups/current/permissions: the guard, then the handler. *)
GetPermissions ==
    /\ LET auth == from_request(input.header, now) IN
       output' = [op     |-> "get_permissions",
                  auth   |-> auth,
                  result |-> IF auth.outcome = "Error" THEN [status |-> auth.status]
                             ELSE get_permissions(auth)]
    /\ UNCHANGED <<service, store, now, response, origin, bearer, depth, input>>

(* POST /groups/current/merge-token: the guard, then the handler. *)
MergeToken ==
    /\ LET auth == from_request(input.header, now) IN
       output' = [op     |-> "merge_token",
                  auth   |-> auth,
                  result |-> IF auth.outcome = "Error" THEN [status |-> auth.status]
                             ELSE merge_token(auth, [other_token |-> input.other_token], now)]
    /\ UNCHANGED <<service, store, now, response, origin, bearer, depth, input>>

NextCreds ==
    \/ GetPermissions
    \/ MergeToken

SpecCreds == InitCreds /\ [][NextCreds]_vars

(* What makes a credential verify, read off the token itself. *)
WellSigned(token, today) ==
    /\ token.fmt = "jwt"
    /\ token.sig = "JWT_SECRET"
    /\ token.claims.exp >= today

(* C5: the guard yields a principal only for a header "Bearer <token>"     *)
(* whose token verifies; no header fails with Missing; a header without    *)
(* the prefix, or with a malformed, wrongly signed or expired token, fails *)
(* with Invalid; a failure carries no principal and no permission set.     *)
C5_GuardOutcomes ==
    output.op = "get_permissions" =>
        LET h == input.header
            a == output.auth
            good == h.present /\ h.scheme = "Bearer " /\ WellSigned(h.token, now)
        IN  /\ a.outcome = "Success" <=> good
            /\ ~h.present => (a.outcome = "Error" /\ a.error = "Missing")
            /\ (h.present /\ ~good) => (a.outcome = "Error" /\ a.error = "Invalid")
            /\ a.outcome = "Error" =>
                  /\ DOMAIN a = {"outcome", "status", "error"}
                  /\ a.status = "Unauthorized"
                  /\ output.result = [status |-> "Unauthorized"]
            /\ a.outcome = "Success" =>
                  /\ a.group_id = h.token.claims.g
                  /\ output.result.status = "Ok"

C5_Witness ==
    /\ output.op = "get_permissions"
    /\ input.header.present
    /\ input.header.scheme = "Bearer "
    /\ input.header.token.fmt = "jwt"
    /\ input.header.token.sig = "JWT_SECRET"
    /\ input.header.token.claims.exp < now
    /\ output.auth.outcome = "Error"
    /\ output.auth.error = "Invalid"

(* C6: merge_token issues a token only if the other token verifies and is  *)
(* for the caller's group; otherwise an authenticated call fails with      *)
(* BadRequest and issues nothing; an issued token is for that one group.   *)
C6_MergeSameGroupOnly ==
    (output.op = "merge_token" /\ output.auth.outcome = "Success") =>
        LET o == input.other_token
            r == output.result
            acceptable == WellSigned(o, now) /\ o.claims.g = output.auth.group_id
        IN  /\ "token" \in DOMAIN r <=> acceptable
            /\ ~acceptable => r = [status |-> "BadRequest"]
            /\ acceptable =>
                  /\ r.status = "Ok"
                  /\ r.token.claims.g = output.auth.group_id
                  /\ r.token.claims.g = o.claims.g

C6_Witness ==
    /\ output.op = "merge_token"
    /\ output.auth.outcome = "Success"
    /\ WellSigned(input.other_token, now)
    /\ input.other_token.claims.g # output.auth.group_id
    /\ output.result.status = "BadRequest"

-----------------------------------------------------------------------------
(* Spec: the service from an empty database, serving up to MaxInFlight     *)
(* calls at a time. Any call may begin while another is between two of its *)
(* queries, and any query may fail.                                        *)

Init ==
    /\ InitStore
    /\ now = 0
    /\ response = NoResponse
    /\ origin = NoToken
    /\ bearer = NoToken
    /\ depth = 0
    /\ input = NoInput
    /\ output = NoOutput
    /\ reader = NoReader
    /\ calls = [s \in 1..MaxInFlight |-> Idle]
    /\ writes = <<>>
    /\ history = NoHistory

Slots == DOMAIN calls

(* Permissions a token of a created group may carry, for a call of a route *)
(* that requires `capability`: the creator's, or a share link's with that  *)
(* capability or another one taken away.                                   *)
AnotherCapability ==
    [can_delete_group   |-> "can_manage_members",
     can_manage_members |-> "can_update_payment",
     can_update_payment |-> "can_add_expenses",
     can_add_expenses   |-> "can_edit_expenses",
     can_edit_expenses  |-> "can_delete_group"]

StorePermissions(capability) ==
    {all, [all EXCEPT ![capability] = SomeFalse],
          [all EXCEPT ![AnotherCapability[capability]] = SomeFalse]}

(* Tokens exist for the groups whose create_group has returned one. *)
StoreHeaders(capability) ==
    {NoHeader} \cup
    {Header("Bearer ", generate_token(g, SomeOf(p), 0)) :
        g \in history.issued, p \in StorePermissions(capability)}

StoreRequests ==
    {[amount |-> 6, currency |-> NoneOf, exchange_rate |-> NoneOf,
      paid_by |-> "m1", expense_type |-> "expense", transfer_to |-> NoneOf,
      split_between |-> <<"m1", "m2">>],
     [amount |-> 6, currency |-> NoneOf, exchange_rate |-> SomeOf(2),
      paid_by |-> "m2", expense_type |-> "transfer", transfer_to |-> SomeOf("m1"),
      split_between |-> <<"m1", "m2">>],
     [amount |-> 5, currency |-> SomeOf("USD"), exchange_rate |-> SomeOf(2),
      paid_by |-> "m1", expense_type |-> "income", transfer_to |-> NoneOf,
      split_between |-> <<"m2">>]}

(* Path segments: no uuid, the ids drawn so far and one not drawn yet. *)
PathIds(pool, next) ==
    {NotAUuid} \cup {pool[k] : k \in {j \in 1..Len(pool) : j <= next}}

Rest == <<now, response, origin, bearer, depth, input, output, reader, writes>>

CreateGroup ==
    /\ \E s \in Slots, request \in [member_names : {<<"Ann">>}, currency : {NoneOf}] :
          CallCreateGroup(s, request)
    /\ UNCHANGED Rest

GetCurrentGroup ==
    /\ \E s \in Slots, header \in StoreHeaders("can_delete_group"), db_ok \in BOOLEAN :
          CallGetCurrentGroup(s, header, db_ok)
    /\ UNCHANGED Rest

AddMember ==
    /\ \E s \in Slots, header \in StoreHeaders("can_manage_members"), db_ok \in BOOLEAN :
          CallAddMember(s, header, [name |-> "Bob"], db_ok)
    /\ UNCHANGED Rest

UpdateMemberPayment ==
    /\ \E s \in Slots, header \in StoreHeaders("can_update_payment"),
          member_id \in PathIds(MemberIdPool, next_id.member), db_ok \in BOOLEAN :
          CallUpdateMemberPayment(s, header, member_id,
              [paypal_email |-> SomeOf("ann@example.org"), iban |-> NoneOf], db_ok)
    /\ UNCHANGED Rest

CreateExpense ==
    /\ next_id.expense <= MaxExpenses
    /\ \E s \in Slots, header \in StoreHeaders("can_add_expenses"),
          request \in StoreRequests, db_ok \in BOOLEAN :
          CallCreateExpense(s, header, request, db_ok)
    /\ UNCHANGED Rest

UpdateExpense ==
    /\ \E s \in Slots, header \in StoreHeaders("can_edit_expenses"),
          expense_id \in PathIds(ExpenseIdPool, next_id.expense),
          request \in StoreRequests, db_ok \in BOOLEAN :
          CallUpdateExpense(s, header, expense_id, request, db_ok)
    /\ UNCHANGED Rest

DeleteExpense ==
    /\ \E s \in Slots, header \in StoreHeaders("can_edit_expenses"),
          expense_id \in PathIds(ExpenseIdPool, next_id.expense), db_ok \in BOOLEAN :
          CallDeleteExpense(s, header, expense_id, db_ok)
    /\ UNCHANGED Rest

DeleteGroup ==
    /\ \E s \in Slots, header \in StoreHeaders("can_delete_group") :
          CallDeleteGroup(s, header)
    /\ UNCHANGED Rest

ExecuteQuery ==
    /\ \E s \in Slots : Execute(s)
    /\ UNCHANGED Rest

FailQuery ==
    /\ \E s \in Slots : Fail(s)
    /\ UNCHANGED Rest

Deliver ==
    /\ \E s \in Slots : Return(s)
    /\ UNCHANGED Rest

Next ==
    \/ CreateGroup
    \/ GetCurrentGroup
    \/ AddMember
    \/ UpdateMemberPayment
    \/ CreateExpense
    \/ UpdateExpense
    \/ DeleteExpense
    \/ DeleteGroup
    \/ ExecuteQuery
    \/ FailQuery
    \/ Deliver

Spec == Init /\ [][Next]_vars

(* The capability each mutating operation is said to require. *)
RequiredCapability ==
    [add_member            |-> "can_manage_members",
     update_member_payment |-> "can_update_payment",
     create_expense        |-> "can_add_expenses",
     update_expense        |-> "can_edit_expenses",
     delete_expense        |-> "can_edit_expenses",
     delete_group          |-> "can_delete_group"]

(* Slot s takes a call in this step; the call is one of a mutating route   *)
(* by a principal the guard let through.                                   *)
Begun(s) == calls[s].pc = "idle" /\ calls'[s].pc # "idle"
Mutating(call) ==
    call.op \in DOMAIN RequiredCapability /\ call.caller.outcome = "Success"

C4_Step ==
    \A s \in Slots :
        (Begun(s) /\ Mutating(calls'[s])) =>
            IF calls'[s].caller.permissions[RequiredCapability[calls'[s].op]] = SomeFalse
            THEN /\ calls'[s].pc = "done"
                 /\ calls'[s].status = "Forbidden"
                 /\ tables' = tables
            ELSE calls'[s].status # "Forbidden"

(* C4: each mutating operation requires exactly one capability: a call by  *)
(* a principal without it is answered Forbidden in its first step, before  *)
(* any query, and leaves groups, members, expenses and expense splits as   *)
(* they were, whatever its other arguments; a call by a principal with it  *)
(* is never answered Forbidden.                                            *)
C4_ForbiddenBeforeMutation == [][C4_Step]_vars

C4_Witness ==
    \E s \in Slots :
        /\ calls[s].pc = "done"
        /\ calls[s].op = "update_expense"
        /\ calls[s].status = "Forbidden"
        /\ calls[s].path = NotAUuid
        /\ calls[s].caller.permissions = [all EXCEPT !.can_edit_expenses = SomeFalse]
        /\ Len(expenses) = 1
        /\ Len(expense_splits) = 2

-----------------------------------------------------------------------------
(* GET /groups/current/balances, fetch by fetch: the handler awaits the    *)
(* SELECT on members, the SELECT on expenses and one SELECT on             *)
(* expense_splits for each expense row that is not a transfer, and queries *)
(* of other calls run between two of them. `reader` is the position of the *)
(* call: the rows it has fetched, the index k of the expense row whose     *)
(* splits it fetches next, and the balances so far.                        *)

ReaderRest == <<store, now, origin, bearer, depth, input, output, calls, writes, history>>

(* The loop from row k up to the next row that has a fetch: a transfer is  *)
(* applied without one.                                                    *)
RECURSIVE until_next_fetch(_)
until_next_fetch(r) ==
    IF r.k > Len(r.expense_rows) \/ r.expense_rows[r.k].expense_type # "transfer"
    THEN r
    ELSE until_next_fetch([r EXCEPT
                             !.balances = apply_expense(@, r.expense_rows[r.k], <<>>),
                             !.k = @ + 1])

(* The handler runs on from position r to its next await, or to the end of *)
(* the loop, where it returns Ok(Json(balances)).                          *)
Proceed(r) ==
    LET next == until_next_fetch(r) IN
    IF next.k > Len(next.expense_rows)
    THEN /\ reader' = [next EXCEPT !.pc = "done"]
         /\ response' = [op           |-> "get_balances",
                         caller       |-> next.auth,
                         status       |-> "Ok",
                         member_rows  |-> next.member_rows,
                         expense_rows |-> next.expense_rows,
                         split_rows   |-> next.split_rows,
                         body         |-> next.balances]
    ELSE /\ reader' = next
         /\ UNCHANGED response

(* get_balances: the guard, then SELECT ... FROM members WHERE group_id,   *)
(* the rows in any order.                                                  *)
FetchMembers ==
    /\ Quiet
    /\ reader.pc = "idle"
    /\ LET auth == from_request(Header("Bearer ", bearer), now) IN
       IF auth.outcome = "Error"
       THEN /\ reader' = [pc |-> "done", failed |-> FALSE]
            /\ response' = [op |-> "get_balances", caller |-> auth,
                            status |-> auth.status]
       ELSE LET matching == SelectSeq(members, LAMBDA m : m.group_id = auth.group_id) IN
            \E order \in RowOrders(Len(matching)) :
               /\ reader' = [pc          |-> "expenses",
                             failed      |-> FALSE,
                             auth        |-> auth,
                             member_rows |-> Permuted(matching, order)]
               /\ UNCHANGED response
    /\ UNCHANGED ReaderRest

(* SELECT ... FROM expenses WHERE group_id, the rows in any order; then    *)
(* the balances are initialised from the member rows fetched before, and   *)
(* the loop starts.                                                        *)
FetchExpenses ==
    /\ Quiet
    /\ reader.pc = "expenses"
    /\ LET matching == SelectSeq(expenses, LAMBDA e : e.group_id = reader.auth.group_id) IN
       \E order \in RowOrders(Len(matching)) :
          Proceed([pc           |-> "splits",
                   failed       |-> FALSE,
                   auth         |-> reader.auth,
                   member_rows  |-> reader.member_rows,
                   expense_rows |-> Permuted(matching, order),
                   split_rows   |-> <<>>,
                   k            |-> 1,
                   balances     |-> init_balances(reader.member_rows)])
    /\ UNCHANGED ReaderRest

(* One iteration of the loop for an expense or an income: SELECT member_id *)
(* FROM expense_splits for the k-th expense row fetched, the rows in any   *)
(* order, then its legs. split_rows lists the rows fetched, in table       *)
(* order.                                                                  *)
FetchSplits ==
    /\ Quiet
    /\ reader.pc = "splits"
    /\ LET e     == reader.expense_rows[reader.k]
           found == fetch_splits(expense_splits, e.id)
       IN  \E order \in RowOrders(Len(found)) :
              Proceed([reader EXCEPT
                         !.balances   = apply_expense(@, e, Permuted(found, order)),
                         !.split_rows = @ \o found,
                         !.k          = @ + 1])
    /\ UNCHANGED ReaderRest

(* The fetch get_balances is about to make fails: map_err gives            *)
(* InternalServerError.                                                    *)
FailFetch ==
    /\ Quiet
    /\ \/ reader.pc = "idle" /\
          from_request(Header("Bearer ", bearer), now).outcome = "Success"
       \/ reader.pc = "expenses"
       \/ reader.pc = "splits"
    /\ reader' = [pc |-> "done", failed |-> TRUE]
    /\ response' = [op     |-> "get_balances",
                    caller |-> from_request(Header("Bearer ", bearer), now),
                    status |-> "InternalServerError"]
    /\ UNCHANGED ReaderRest

-----------------------------------------------------------------------------
(* SpecLedger: a group of two or three members, whose creator records      *)
(* expenses, transfers and incomes, one call at a time and query by query, *)
(* and asks for the balances, fetch by fetch, the queries of a call        *)
(* running between the fetches. A                                          *)
(* request may name a payer, a transfer target or split members that are   *)
(* not members of the group: create_expense checks none of them. Every     *)
(* query succeeds here; Spec and SpecConcurrent have the failing ones.     *)

(* The member rows create_group stores for n names: every row has the one  *)
(* created_at the call read at its start.                                  *)
LedgerMembers(n) ==
    [k \in 1..n |-> [id           |-> MemberIdPool[k],
                     group_id     |-> "g1",
                     name         |-> MemberIdPool[k],
                     paypal_email |-> NoneOf,
                     iban         |-> NoneOf,
                     created_at   |-> 1]]

InitLedger ==
    /\ groups = {[id |-> "g1", currency |-> "EUR"]}
    /\ \E n \in {2, 3} :
          /\ members = LedgerMembers(n)
          /\ next_id = [group |-> 2, member |-> n + 1, expense |-> 1, tick |-> 2]
    /\ expenses = <<>>
    /\ expense_splits = <<>>
    /\ now = 0
    /\ response = NoResponse
    /\ origin = NoToken
    /\ bearer = generate_token("g1", SomeOf(all), 0)
    /\ depth = 0
    /\ input = NoInput
    /\ output = NoOutput
    /\ reader = NoReader
    /\ calls = NoCalls
    /\ writes = <<>>
    /\ history = [NoHistory EXCEPT !.issued = {"g1"}]

(* amount, currency and exchange_rate of a request: in the group's         *)
(* currency, or converted at a rate of 2.                                  *)
LedgerAmounts ==
    {[amount |-> 6, currency |-> NoneOf, exchange_rate |-> NoneOf],
     [amount |-> 5, currency |-> SomeOf("USD"), exchange_rate |-> SomeOf(2)]}

LedgerSplits ==
    {<<>>, <<"m1">>, <<"m1", "m2">>, <<"m2", "m3">>, <<"m2", "m2">>,
     <<"m1", "m2", "m3">>}

LedgerRequests ==
    {[amount        |-> a.amount,
      currency      |-> a.currency,
      exchange_rate |-> a.exchange_rate,
      paid_by       |-> payer,
      expense_type  |-> "transfer",
      transfer_to   |-> to,
      split_between |-> split] :
        a \in LedgerAmounts, payer \in {"m1", "m3"},
        to \in {NoneOf, SomeOf("m2"), SomeOf("m3")},
        split \in {<<>>, <<"m1", "m2">>}}
    \cup
    {[amount        |-> a.amount,
      currency      |-> a.currency,
      exchange_rate |-> a.exchange_rate,
      paid_by       |-> payer,
      expense_type  |-> type,
      transfer_to   |-> NoneOf,
      split_between |-> split] :
        a \in LedgerAmounts, payer \in {"m1", "m3"},
        type \in {"expense", "income"}, split \in LedgerSplits}

LedgerRest == <<now, origin, bearer, depth, input, output, reader, writes>>

CreateExpenseLedger ==
    /\ response = NoResponse
    /\ next_id.expense <= MaxLedgerExpenses
    /\ \E request \in LedgerRequests :
          CallCreateExpense(1, Header("Bearer ", bearer), request, TRUE)
    /\ UNCHANGED <<response, LedgerRest>>

ExecuteLedger ==
    /\ response = NoResponse
    /\ Execute(1)
    /\ UNCHANGED <<response, LedgerRest>>

DeliverLedger ==
    /\ Return(1)
    /\ UNCHANGED <<response, LedgerRest>>

(* The client receives the balances; the next get_balances may begin. *)
ReceiveBalances ==
    /\ response # NoResponse
    /\ response' = NoResponse
    /\ reader' = NoReader
    /\ UNCHANGED ReaderRest

NextLedger ==
    \/ CreateExpenseLedger
    \/ ExecuteLedger
    \/ DeliverLedger
    \/ FetchMembers
    \/ FetchExpenses
    \/ FetchSplits
    \/ ReceiveBalances

SpecLedger == InitLedger /\ [][NextLedger]_vars

-----------------------------------------------------------------------------
(* Sums of balances and their rounding (SpecLedger).                       *)

(* The exact sum of the balances, not rounded. *)
RECURSIVE SumBalances(_, _)
SumBalances(balances, i) ==
    IF i > Len(balances) THEN Zero
    ELSE plus(balances[i].balance, SumBalances(balances, i + 1))

(* What a get_balances call fetched: its expense rows and member rows in   *)
(* the order fetched, the split rows of an expense row, the member ids.    *)
Rows == response.expense_rows
SplitsOf(e) == fetch_splits(response.split_rows, e.id)
SplitMembersOf(e) == {SplitsOf(e)[k].member_id : k \in 1..Len(SplitsOf(e))}
Listed == {response.member_rows[i].id : i \in 1..Len(response.member_rows)}

(* The balances get_balances computes for the member rows it fetched from  *)
(* the given expense rows and the split rows it fetched.                   *)
Recomputed(expense_rows) ==
    for_each_expense(init_balances(response.member_rows), expense_rows, 1,
                     response.split_rows)

(* No query of another call ran between the fetches of the call: it        *)
(* answers as get_balances on the tables, the rows in table order.         *)
Uninterrupted ==
    /\ calls[1].pc = "idle"
    /\ response.member_rows = members
    /\ response.expense_rows = expenses
    /\ Len(response.split_rows) = Len(expense_splits)
    /\ response.body =
          get_balances(response.caller, [i \in 1..Len(members) |-> i],
                       [i \in 1..Len(expenses) |-> i]).body

(* amount * exchange_rate, as an f64. *)
Normalised(e) == mul(to_f64(e.amount), to_f64(e.exchange_rate))

(* The number of additions and subtractions a transaction asks for. *)
Legs(e) ==
    IF e.expense_type = "transfer" THEN 2
    ELSE IF Len(SplitsOf(e)) = 0 THEN 0 ELSE 1 + Len(SplitsOf(e))

RECURSIVE TotalLegs(_, _)
TotalLegs(rows, i) ==
    IF i > Len(rows) THEN 0 ELSE Legs(rows[i]) + TotalLegs(rows, i + 1)

(* The sum of |amount * exchange_rate| over the transactions. *)
RECURSIVE TotalAmount(_, _)
TotalAmount(rows, i) ==
    IF i > Len(rows) THEN Zero
    ELSE plus([Normalised(rows[i]) EXCEPT !.neg = FALSE], TotalAmount(rows, i + 1))

(* The rounding allowed on the balances of the transactions `rows`, in     *)
(* units of 2^-60: 2^-50 times the total amount, for each leg. Each leg    *)
(* rounds a value of at most twice the total amount, by at most 2^-53 of   *)
(* it, and a share differs from amount / |split| by as much.               *)
Tolerance(rows) == TotalLegs(rows, 1) * (TotalAmount(rows, 1).mag[1] \div 2^10)

(* |x| is within the rounding allowed. *)
WithinTolerance(x, rows) ==
    /\ x.mag[1] = 0
    /\ x.mag[2] < 2^10
    /\ x.mag[2] * Limb + x.mag[3] <= Tolerance(rows)

ExpenseOnly ==
    \A i \in 1..Len(Rows) : Rows[i].expense_type \notin {"transfer", "income"}

(* Every payer and split member of the transactions is a member. *)
AmongMembers ==
    \A i \in 1..Len(Rows) :
        /\ Rows[i].paid_by \in Listed
        /\ SplitMembersOf(Rows[i]) \subseteq Listed

(* C9 as stated: the balances of a group whose transactions are all        *)
(* expenses sum to 0, whatever ids the transactions name.                  *)
C9_ExpenseOnlySumsToZero ==
    (response.op = "get_balances" /\ ExpenseOnly) =>
        SumBalances(response.body, 1) = Zero

(* C9, amended: when the transactions get_balances fetched are all         *)
(* expenses, each paid by a member it fetched and split, by the split rows *)
(* it fetched, among members it fetched, the balances sum to 0 up to the   *)
(* rounding of the f64 arithmetic: the sum is at most 2^-50 of the total   *)
(* amount for each leg of the transactions.                                *)
C9_ExpenseOnlyAmongMembersSumsToZero ==
    (response.op = "get_balances" /\ ExpenseOnly /\ AmongMembers) =>
        WithinTolerance(SumBalances(response.body, 1), Rows)

C9_Witness ==
    /\ response.op = "get_balances"
    /\ Len(members) = 3
    /\ Len(expenses) = 1
    /\ Uninterrupted
    /\ ExpenseOnly
    /\ AmongMembers
    /\ expenses[1].paid_by = "m1"
    /\ expenses[1].amount = 5 /\ expenses[1].exchange_rate = 2
    /\ [k \in 1..Len(expense_splits) |-> expense_splits[k].member_id] = <<"m1", "m2", "m3">>
    /\ response.body[1].balance = [neg |-> FALSE, mag |-> <<6990506, 699050, 698368>>]
    /\ response.body[2].balance = [neg |-> TRUE, mag |-> <<3495253, 349525, 349696>>]
    /\ response.body[3].balance = [neg |-> TRUE, mag |-> <<3495253, 349525, 349696>>]
    /\ SumBalances(response.body, 1) = [neg |-> TRUE, mag |-> <<0, 0, 1024>>]

(* C10 as stated: the balances do not depend on the order of the           *)
(* transaction list: the balances returned are those of every order of the *)
(* rows fetched.                                                           *)
C10_OrderOfTransactionsIrrelevant ==
    response.op = "get_balances" =>
        \A order \in RowOrders(Len(Rows)) :
            Recomputed(Permuted(Rows, order)) = response.body

(* C10, amended: the balances of two orders of the rows fetched have the   *)
(* same entries and differ, member by member, by no more than the rounding *)
(* of the f64 additions.                                                   *)
C10_OrderChangesRoundingOnly ==
    response.op = "get_balances" =>
        \A order \in RowOrders(Len(Rows)) :
            LET other == Recomputed(Permuted(Rows, order)) IN
            /\ Len(other) = Len(response.body)
            /\ \A i \in 1..Len(other) :
                  /\ other[i].user_id = response.body[i].user_id
                  /\ other[i].user_name = response.body[i].user_name
                  /\ WithinTolerance(plus(other[i].balance, neg(response.body[i].balance)),
                                     Rows)

C10_Witness ==
    /\ response.op = "get_balances"
    /\ Len(members) = 2
    /\ Len(expenses) = 2
    /\ Uninterrupted
    /\ expenses[1].expense_type = "transfer" /\ expenses[1].transfer_to = NoneOf
    /\ expenses[1].amount = 6
    /\ expenses[2].expense_type = "income" /\ expenses[2].exchange_rate = 2
    /\ SplitMembersOf(expenses[2]) = {"m1", "m2", "m3"}
    /\ expenses[1].paid_by = "m1" /\ expenses[2].paid_by = "m1"
    /\ response.body[1].balance = [neg |-> TRUE, mag |-> <<699050, 699050, 698880>>]
    /\ get_balances(response.caller, <<1, 2>>, <<2, 1>>).body[1].balance =
          [neg |-> TRUE, mag |-> <<699050, 699050, 698368>>]

-----------------------------------------------------------------------------
(* The three rules of the ledger, one transaction at a time: the balances  *)
(* after the n-th expense row get_balances fetched, against the balances   *)
(* before it. Additions, subtractions and divisions are those of f64.      *)

(* The balances before and after the n-th row. *)
Before(n) ==
    for_each_expense([i \in 1..Len(response.body) |->
                         [response.body[i] EXCEPT !.balance = Zero]],
                     SubSeq(Rows, 1, n - 1), 1, response.split_rows)
After(n) ==
    for_each_expense([i \in 1..Len(response.body) |->
                         [response.body[i] EXCEPT !.balance = Zero]],
                     SubSeq(Rows, 1, n), 1, response.split_rows)

(* The balances returned are those after the last row. *)
Returned == After(Len(Rows)) = response.body

Count(splits, id) == Cardinality({k \in 1..Len(splits) : splits[k].member_id = id})

(* balance, with delta added count times. *)
RECURSIVE Times(_, _, _)
Times(balance, delta, count) ==
    IF count = 0 THEN balance ELSE Times(add(balance, delta), delta, count - 1)

(* What each rule makes of the balance of member id. *)
ExpenseRule(e, s, id, balance) ==
    Times(IF id = e.paid_by THEN add(balance, Normalised(e)) ELSE balance,
          neg(div(Normalised(e), Len(s))), Count(s, id))
TransferRule(e, id, balance) ==
    LET paid == IF id = e.paid_by THEN add(balance, Normalised(e)) ELSE balance IN
    IF e.transfer_to = SomeOf(id) THEN add(paid, neg(Normalised(e))) ELSE paid
IncomeRule(e, s, id, balance) ==
    Times(IF id = e.paid_by THEN add(balance, neg(Normalised(e))) ELSE balance,
          div(Normalised(e), Len(s)), Count(s, id))

(* C11: a transaction of the default kind with a non-empty split adds      *)
(* amount * exchange_rate to the payer's balance, subtracts                *)
(* amount * exchange_rate / |split| from the balance of each split member  *)
(* and changes no other balance.                                           *)
C11_ExpenseRule ==
    (response.op = "get_balances" /\ response.status = "Ok") =>
        /\ Returned
        /\ \A n \in 1..Len(Rows) :
              LET e == Rows[n]
                  s == SplitsOf(e)
              IN  (e.expense_type \notin {"transfer", "income"} /\ Len(s) > 0) =>
                      \A i \in 1..Len(response.body) :
                          After(n)[i].balance =
                              ExpenseRule(e, s, response.body[i].user_id, Before(n)[i].balance)

C11_Witness ==
    /\ response.op = "get_balances"
    /\ Len(members) = 3
    /\ Len(expenses) = 1
    /\ Uninterrupted
    /\ expenses[1].expense_type = "expense"
    /\ expenses[1].amount = 6 /\ expenses[1].exchange_rate = 1
    /\ expenses[1].paid_by = "m1"
    /\ [k \in 1..Len(expense_splits) |-> expense_splits[k].member_id] = <<"m1", "m2", "m3">>
    /\ response.body[1].balance = to_f64(4)
    /\ response.body[2].balance = to_f64(0 - 2)
    /\ response.body[3].balance = to_f64(0 - 2)

(* The split rows a request's split_between would be stored as. *)
SplitRows(expense_id, split_between) ==
    [k \in 1..Len(split_between) |->
        [expense_id |-> expense_id, member_id |-> split_between[k]]]

(* C12: a transfer adds amount * exchange_rate to the payer's balance,     *)
(* subtracts it from the transfer target's balance and changes no other    *)
(* balance; the balances are the same whatever split set comes with it.    *)
C12_TransferRule ==
    (response.op = "get_balances" /\ response.status = "Ok") =>
        /\ Returned
        /\ \A n \in 1..Len(Rows) :
              LET e == Rows[n] IN
              e.expense_type = "transfer" =>
                  /\ \A i \in 1..Len(response.body) :
                        After(n)[i].balance =
                            TransferRule(e, response.body[i].user_id, Before(n)[i].balance)
                  /\ \A split \in LedgerSplits :
                        apply_expense(Before(n), e, SplitRows(e.id, split)) = After(n)

C12_Witness ==
    /\ response.op = "get_balances"
    /\ Len(members) = 3
    /\ Len(expenses) = 1
    /\ Uninterrupted
    /\ expenses[1].expense_type = "transfer"
    /\ expenses[1].amount = 6 /\ expenses[1].exchange_rate = 1
    /\ expenses[1].paid_by = "m1"
    /\ expenses[1].transfer_to = SomeOf("m2")
    /\ response.body[1].balance = to_f64(6)
    /\ response.body[2].balance = to_f64(0 - 6)
    /\ response.body[3].balance = Zero

(* C13: an income with a non-empty split subtracts amount * exchange_rate  *)
(* from the receiver's balance, adds amount * exchange_rate / |split| to   *)
(* the balance of each split member and changes no other balance.          *)
C13_IncomeRule ==
    (response.op = "get_balances" /\ response.status = "Ok") =>
        /\ Returned
        /\ \A n \in 1..Len(Rows) :
              LET e == Rows[n]
                  s == SplitsOf(e)
              IN  (e.expense_type = "income" /\ Len(s) > 0) =>
                      \A i \in 1..Len(response.body) :
                          After(n)[i].balance =
                              IncomeRule(e, s, response.body[i].user_id, Before(n)[i].balance)

C13_Witness ==
    /\ response.op = "get_balances"
    /\ Len(members) = 3
    /\ Len(expenses) = 1
    /\ Uninterrupted
    /\ expenses[1].expense_type = "income"
    /\ expenses[1].amount = 6 /\ expenses[1].exchange_rate = 1
    /\ expenses[1].paid_by = "m1"
    /\ [k \in 1..Len(expense_splits) |-> expense_splits[k].member_id] = <<"m1", "m2">>
    /\ response.body[1].balance = to_f64(0 - 3)
    /\ response.body[2].balance = to_f64(3)
    /\ response.body[3].balance = Zero

(* C14: an expense or income whose split set is empty changes no balance,  *)
(* the payer's included, and get_balances answers Ok for every history     *)
(* (the division by the split count is never reached with a count of 0).   *)
C14_EmptySplitIsNoOp ==
    response.op = "get_balances" =>
        /\ response.status = "Ok"
        /\ Returned
        /\ \A n \in 1..Len(Rows) :
              (Rows[n].expense_type # "transfer" /\ Len(SplitsOf(Rows[n])) = 0) =>
                  After(n) = Before(n)

C14_Witness ==
    /\ response.op = "get_balances"
    /\ response.status = "Ok"
    /\ Len(expenses) = 2
    /\ Uninterrupted
    /\ expenses[1].expense_type = "expense" /\ expenses[1].paid_by = "m1"
    /\ expenses[2].expense_type = "income" /\ expenses[2].paid_by = "m1"
    /\ expense_splits = <<>>
    /\ \A i \in 1..Len(response.body) : response.body[i].balance = Zero

(* The member ids a transaction names. *)
Referenced(e) ==
    {e.paid_by}
    \cup (IF e.expense_type = "transfer" /\ e.transfer_to.tag = "Some"
          THEN {e.transfer_to.val} ELSE {})
    \cup (IF e.expense_type # "transfer"
          THEN {SplitsOf(e)[k].member_id : k \in 1..Len(SplitsOf(e))} ELSE {})

(* C15: a transaction naming a member id that is not in the member list    *)
(* get_balances fetched does not make it fail: the result has one entry    *)
(* per member row fetched, in the order fetched, and each listed member    *)
(* gets its legs of the                                                    *)
(* transaction unchanged, the share being amount / |split| with the absent *)
(* members counted in |split|.                                             *)
C15_AbsentMemberLegDropped ==
    response.op = "get_balances" =>
        LET listed == response.member_rows IN
        /\ response.status = "Ok"
        /\ Returned
        /\ [i \in 1..Len(response.body) |-> response.body[i].user_id] =
              [i \in 1..Len(listed) |-> listed[i].id]
        /\ \A n \in 1..Len(Rows) :
              LET e == Rows[n]
                  s == SplitsOf(e)
              IN  ~(Referenced(e) \subseteq Listed) =>
                    \A i \in 1..Len(response.body) :
                       LET id == response.body[i].user_id IN
                       After(n)[i].balance =
                          CASE e.expense_type = "transfer" ->
                                 TransferRule(e, id, Before(n)[i].balance)
                            [] Len(s) = 0 ->
                                 Before(n)[i].balance
                            [] e.expense_type = "income" ->
                                 IncomeRule(e, s, id, Before(n)[i].balance)
                            [] OTHER ->
                                 ExpenseRule(e, s, id, Before(n)[i].balance)

C15_Witness ==
    /\ response.op = "get_balances"
    /\ response.status = "Ok"
    /\ Len(members) = 2
    /\ Len(expenses) = 1
    /\ Uninterrupted
    /\ expenses[1].expense_type = "expense"
    /\ expenses[1].amount = 5 /\ expenses[1].exchange_rate = 2
    /\ expenses[1].paid_by = "m3"
    /\ [k \in 1..Len(expense_splits) |-> expense_splits[k].member_id] = <<"m1", "m2", "m3">>
    /\ Len(response.body) = 2
    /\ response.body[1].balance = [neg |-> TRUE, mag |-> <<3495253, 349525, 349696>>]
    /\ response.body[2].balance = [neg |-> TRUE, mag |-> <<3495253, 349525, 349696>>]

-----------------------------------------------------------------------------
(* Conservation (SpecLedger).                                              *)

(* Every id the transactions fetched name is a member fetched, and every   *)
(* transfer has a target.                                                  *)
WellFormed ==
    \A n \in 1..Len(Rows) :
        /\ Referenced(Rows[n]) \subseteq Listed
        /\ Rows[n].expense_type = "transfer" => Rows[n].transfer_to.tag = "Some"

(* C18 as stated: for any mix of expenses, transfers and incomes that name *)
(* members of the group only, every transfer having a target, the balances *)
(* returned sum to 0.                                                      *)
C18_WellFormedHistoriesSumToZero ==
    (response.op = "get_balances" /\ WellFormed) =>
        SumBalances(response.body, 1) = Zero

(* C18, amended: for such a mix, as get_balances fetched it, the balances  *)
(* returned sum to 0 up to the rounding of the f64 arithmetic: the sum is  *)
(* at most 2^-50 of the total amount for each leg of the transactions.     *)
C18_WellFormedHistoriesSumToRounding ==
    (response.op = "get_balances" /\ WellFormed) =>
        WithinTolerance(SumBalances(response.body, 1), Rows)

C18_Witness ==
    /\ response.op = "get_balances"
    /\ WellFormed
    /\ Len(members) = 3
    /\ Len(expenses) = 2
    /\ Uninterrupted
    /\ expenses[1].expense_type = "transfer"
    /\ expenses[1].paid_by = "m1" /\ expenses[1].transfer_to = SomeOf("m2")
    /\ expenses[1].amount = 6
    /\ expenses[2].expense_type = "income"
    /\ expenses[2].paid_by = "m3" /\ expenses[2].exchange_rate = 2
    /\ SplitMembersOf(expenses[2]) = {"m1", "m2", "m3"}
    /\ Len(SplitsOf(expenses[2])) = 3
    /\ SumBalances(response.body, 1) # Zero

-----------------------------------------------------------------------------
(* Stored transactions of the service (Spec).                              *)

(* C16: a stored transaction whose currency is its group's currency has    *)
(* exchange_rate = 1, after any sequence of create_expense and             *)
(* update_expense calls.                                                   *)
C16_SameCurrencyRateIsOne ==
    \A i \in 1..Len(expenses) :
        \A g \in groups :
            (g.id = expenses[i].group_id /\ expenses[i].currency = g.currency) =>
                expenses[i].exchange_rate = 1

-----------------------------------------------------------------------------
(* SpecConcurrent: one get_balances call and up to MaxWrites mutating      *)
(* calls, made one after the other by the group's creator, the queries of  *)
(* the mutating call in progress interleaved with the fetches of           *)
(* get_balances, and any query or fetch failing. The group starts as       *)
(* create_group with two names and one create_expense leave it. `response` is the answer of get_balances;      *)
(* writes lists the mutating calls as they began: the operation, the       *)
(* status its first step settled on and the queries it had left to run.    *)

InitialExpenses ==
    <<[id            |-> "e1",
       group_id      |-> "g1",
       amount        |-> 6,
       paid_by       |-> "m1",
       expense_type  |-> "expense",
       transfer_to   |-> NoneOf,
       currency      |-> "EUR",
       exchange_rate |-> 1]>>

InitialSplits ==
    <<[expense_id |-> "e1", member_id |-> "m1"],
      [expense_id |-> "e1", member_id |-> "m2"]>>

InitConcurrent ==
    /\ groups = {[id |-> "g1", currency |-> "EUR"]}
    /\ members = LedgerMembers(2)
    /\ expenses = InitialExpenses
    /\ expense_splits = InitialSplits
    /\ next_id = [group |-> 2, member |-> 3, expense |-> 2, tick |-> 2]
    /\ now = 0
    /\ response = NoResponse
    /\ origin = NoToken
    /\ bearer = generate_token("g1", SomeOf(all), 0)
    /\ depth = 0
    /\ input = NoInput
    /\ output = NoOutput
    /\ reader = NoReader
    /\ calls = NoCalls
    /\ writes = <<>>
    /\ history = [NoHistory EXCEPT !.issued = {"g1"}, !.split_of = {<<"e1", "g1">>}]

ConcurrentRequests ==
    {[amount |-> 6, currency |-> NoneOf, exchange_rate |-> NoneOf,
      paid_by |-> "m1", expense_type |-> "expense", transfer_to |-> NoneOf,
      split_between |-> <<"m2", "m3">>],
     [amount |-> 6, currency |-> NoneOf, exchange_rate |-> NoneOf,
      paid_by |-> "m2", expense_type |-> "transfer", transfer_to |-> SomeOf("m3"),
      split_between |-> <<"m1", "m2">>],
     [amount |-> 5, currency |-> SomeOf("USD"), exchange_rate |-> SomeOf(2),
      paid_by |-> "m3", expense_type |-> "income", transfer_to |-> NoneOf,
      split_between |-> <<"m1">>]}

ConcurrentPathIds == {"e1", "e2"}

ConcurrentRest == <<now, response, origin, bearer, depth, input, output, reader>>

(* The mutating call that begins in this step is added to writes. *)
BeginWrite ==
    /\ Len(writes) < MaxWrites
    /\ writes' = Append(writes, [op      |-> calls'[1].op,
                                 status  |-> calls'[1].status,
                                 queries |-> calls'[1].queries])
    /\ UNCHANGED ConcurrentRest

BeginAddMember ==
    /\ \E db_ok \in BOOLEAN :
          CallAddMember(1, Header("Bearer ", bearer), [name |-> "Cy"], db_ok)
    /\ BeginWrite

BeginCreateExpense ==
    /\ \E request \in ConcurrentRequests, db_ok \in BOOLEAN :
          CallCreateExpense(1, Header("Bearer ", bearer), request, db_ok)
    /\ BeginWrite

BeginUpdateExpense ==
    /\ \E expense_id \in ConcurrentPathIds, request \in ConcurrentRequests,
          db_ok \in BOOLEAN :
          CallUpdateExpense(1, Header("Bearer ", bearer), expense_id, request, db_ok)
    /\ BeginWrite

BeginDeleteExpense ==
    /\ \E expense_id \in ConcurrentPathIds, db_ok \in BOOLEAN :
          CallDeleteExpense(1, Header("Bearer ", bearer), expense_id, db_ok)
    /\ BeginWrite

BeginDeleteGroup ==
    /\ CallDeleteGroup(1, Header("Bearer ", bearer))
    /\ BeginWrite

(* The mutating call runs its next query, or the query fails, or its       *)
(* response is delivered.                                                  *)
ExecuteWrite ==
    /\ Execute(1)
    /\ UNCHANGED <<writes, ConcurrentRest>>

FailWrite ==
    /\ Fail(1)
    /\ UNCHANGED <<writes, ConcurrentRest>>

Complete ==
    /\ Return(1)
    /\ UNCHANGED <<writes, ConcurrentRest>>

NextConcurrent ==
    \/ BeginAddMember
    \/ BeginCreateExpense
    \/ BeginUpdateExpense
    \/ BeginDeleteExpense
    \/ BeginDeleteGroup
    \/ ExecuteWrite
    \/ FailWrite
    \/ Complete
    \/ FetchMembers
    \/ FetchExpenses
    \/ FetchSplits
    \/ FailFetch

SpecConcurrent == InitConcurrent /\ [][NextConcurrent]_vars

(* C17: get_balances, its fetches interleaved with the queries of          *)
(* add_member, create_expense, update_expense, delete_expense and          *)
(* delete_group calls, answers Ok unless one of its own fetches fails,     *)
(* with exactly one entry per member row it fetched, in that order; a      *)
(* member added after the member fetch has no entry, so every leg naming   *)
(* that member is dropped.                                                 *)
C17_TornReadNeverFails ==
    response.op = "get_balances" =>
        /\ reader.pc = "done"
        /\ response.status = IF reader.failed THEN "InternalServerError" ELSE "Ok"
        /\ response.status = "Ok" =>
              /\ [i \in 1..Len(response.body) |-> response.body[i].user_id] =
                    [i \in 1..Len(reader.member_rows) |-> reader.member_rows[i].id]
              /\ \A i \in 1..Len(members) :
                    (\A j \in 1..Len(reader.member_rows) :
                         reader.member_rows[j].id # members[i].id) =>
                        \A j \in 1..Len(response.body) :
                            response.body[j].user_id # members[i].id

C17_Witness ==
    /\ response.op = "get_balances"
    /\ response.status = "Ok"
    /\ Len(reader.member_rows) = 2
    /\ Len(members) = 3
    /\ Len(reader.expense_rows) = 2
    /\ \E k \in 1..2 :
          /\ reader.expense_rows[k].id = "e2"
          /\ reader.expense_rows[k].expense_type = "expense"
    /\ \E k \in 1..Len(expense_splits) :
          expense_splits[k] = [expense_id |-> "e2", member_id |-> "m3"]
    /\ Len(response.body) = 2
    /\ response.body[1].balance = to_f64(9)
    /\ response.body[2].balance = to_f64(0 - 6)

-----------------------------------------------------------------------------
(* update_expense against a concurrent get_balances (SpecConcurrent).      *)

(* The only mutating call so far is an update_expense whose first step     *)
(* found the expense and went on to its queries.                           *)
OnlyUpdate ==
    /\ Len(writes) = 1
    /\ writes[1].op = "update_expense"
    /\ writes[1].status = "Ok"
    /\ writes[1].queries # <<>>

(* What get_balances computes for the members it fetched from the given    *)
(* expense rows and split rows.                                            *)
BalancesOn(expense_rows, split_rows) ==
    for_each_expense(init_balances(reader.member_rows), expense_rows, 1, split_rows)

(* The row being updated, before and after the UPDATE, and the split rows  *)
(* the call inserts.                                                       *)
OldRow == InitialExpenses[IndexOf(InitialExpenses, writes[1].queries[1].id, 1)]
UpdatedRow ==
    [id            |-> OldRow.id,
     group_id      |-> OldRow.group_id,
     amount        |-> writes[1].queries[1].set.amount,
     paid_by       |-> writes[1].queries[1].set.paid_by,
     expense_type  |-> writes[1].queries[1].set.expense_type,
     transfer_to   |-> writes[1].queries[1].set.transfer_to,
     currency      |-> writes[1].queries[1].set.currency,
     exchange_rate |-> writes[1].queries[1].set.exchange_rate]
OldSplits == SelectSeq(InitialSplits, LAMBDA r : r.expense_id = OldRow.id)
Inserted ==
    LET q == SelectSeq(writes[1].queries, LAMBDA x : x.sql = "INSERT INTO expense_splits")
    IN  [k \in 1..Len(q) |-> [expense_id |-> q[k].expense_id, member_id |-> q[k].member_id]]

(* C19 as stated: get_balances running concurrently with one               *)
(* update_expense call returns the balances of the stored state before the *)
(* update or those of the stored state after it.                           *)
C19_UpdateIsAtomicToReaders ==
    (/\ response.op = "get_balances"
     /\ response.status = "Ok"
     /\ OnlyUpdate
     /\ history.failed = {}
     /\ calls[1].pc = "idle") =>
        \/ response.body = BalancesOn(InitialExpenses, InitialSplits)
        \/ response.body = BalancesOn(expenses, expense_splits)

(* C19, amended: get_balances running concurrently with one update_expense *)
(* call returns the balances of the expense row as it was before or after  *)
(* the UPDATE, with the split rows it found when it fetched them: the old  *)
(* split set, no split row, or the first k split rows the call inserts;    *)
(* so also when a query of the call fails.                                 *)
C19_UpdateSeenQueryByQuery ==
    (response.op = "get_balances" /\ response.status = "Ok" /\ OnlyUpdate) =>
        \E row \in {OldRow, UpdatedRow} :
            \/ response.body = BalancesOn(<<row>>, OldSplits)
            \/ \E k \in 0..Len(Inserted) :
                  response.body = BalancesOn(<<row>>, SubSeq(Inserted, 1, k))

C19_Witness ==
    /\ response.op = "get_balances"
    /\ response.status = "Ok"
    /\ OnlyUpdate
    /\ history.failed = {}
    /\ calls[1].pc = "idle"
    /\ UpdatedRow.expense_type = "income"
    /\ response.body = BalancesOn(<<UpdatedRow>>, OldSplits)
    /\ response.body # BalancesOn(InitialExpenses, InitialSplits)
    /\ response.body # BalancesOn(expenses, expense_splits)
    /\ response.body[1].balance = to_f64(5)
    /\ response.body[2].balance = to_f64(5)

-----------------------------------------------------------------------------
(* Group isolation (Spec).                                                 *)

(* The rows of the groups other than group_id in the given tables. *)
OtherGroups(table, group_id) == {g \in table : g.id # group_id}
OtherMembers(table, group_id) == SelectSeq(table, LAMBDA m : m.group_id # group_id)
OtherExpenses(table, group_id) == SelectSeq(table, LAMBDA e : e.group_id # group_id)
OtherSplits(table, expense_table, group_id) ==
    SelectSeq(table,
              LAMBDA r : \E i \in 1..Len(expense_table) :
                            /\ expense_table[i].id = r.expense_id
                            /\ expense_table[i].group_id # group_id)

(* A step leaves the rows of every group other than group_id as they were. *)
OthersUnchanged(group_id) ==
    /\ OtherGroups(groups', group_id) = OtherGroups(groups, group_id)
    /\ OtherMembers(members', group_id) = OtherMembers(members, group_id)
    /\ OtherExpenses(expenses', group_id) = OtherExpenses(expenses, group_id)
    /\ OtherSplits(expense_splits', expenses', group_id) =
          OtherSplits(expense_splits, expenses, group_id)

(* The path id of the call names a member (update_member_payment) or an    *)
(* expense (update_expense, delete_expense) of a group other than the      *)
(* caller's.                                                               *)
ForeignId(call) ==
    /\ call.op \in {"update_member_payment", "update_expense", "delete_expense"}
    /\ IF call.op = "update_member_payment"
       THEN \E i \in 1..Len(members) :
               members[i].id = call.path /\ members[i].group_id # call.caller.group_id
       ELSE \E i \in 1..Len(expenses) :
               expenses[i].id = call.path /\ expenses[i].group_id # call.caller.group_id

(* The mutating call in slot s takes a step: its first, or a query. *)
Steps(s) ==
    \/ Begun(s) /\ Mutating(calls'[s])
    \/ calls[s].pc = "run" /\ calls'[s] # calls[s] /\ Mutating(calls[s])

C20_StepAsStated ==
    \A s \in Slots :
        /\ (Begun(s) /\ Mutating(calls'[s]) /\ ForeignId(calls'[s])) =>
              /\ calls'[s].pc = "done"
              /\ calls'[s].status = "NotFound"
              /\ tables' = tables
        /\ Steps(s) => OthersUnchanged(calls'[s].caller.group_id)

(* C20 as stated: a call of update_member_payment, update_expense or       *)
(* delete_expense with a token for group G and an id of another group is   *)
(* answered NotFound and changes nothing, and a mutating call with a token *)
(* for G leaves the rows of every other group unchanged.                   *)
C20_GroupIsolationAsStated == [][C20_StepAsStated]_vars

C20_Step ==
    \A s \in Slots :
        /\ (Begun(s) /\ Mutating(calls'[s]) /\ ForeignId(calls'[s])) =>
              /\ calls'[s].pc = "done"
              /\ tables' = tables
              /\ IF has(calls'[s].caller.permissions, RequiredCapability[calls'[s].op])
                 THEN calls'[s].status \in {"NotFound", "InternalServerError"}
                 ELSE calls'[s].status = "Forbidden"
        /\ Steps(s) => OthersUnchanged(calls'[s].caller.group_id)

(* C20, amended: such a call with an id of another group runs no query     *)
(* that writes and is answered NotFound when the token carries the         *)
(* capability the operation requires (InternalServerError when its lookup  *)
(* fails), Forbidden when it does not; every step of a mutating call with  *)
(* a token for G leaves the rows of every other group unchanged.           *)
C20_GroupIsolation == [][C20_Step]_vars

C20_Witness ==
    \E s \in Slots :
        /\ calls[s].pc = "done"
        /\ calls[s].op = "delete_expense"
        /\ calls[s].status = "NotFound"
        /\ calls[s].caller.group_id = "g2"
        /\ has_edit_expenses(calls[s].caller.permissions)
        /\ calls[s].path = "e1"
        /\ Len(expenses) = 1
        /\ expenses[1].id = "e1" /\ expenses[1].group_id = "g1"
        /\ Len(expense_splits) = 2

-----------------------------------------------------------------------------
(* Transfers and their split rows (Spec).                                  *)

(* No call is in progress on the group and no query of a call on it has    *)
(* failed: every call made on it so far completed.                         *)
Settled(group_id) ==
    /\ group_id \notin history.failed
    /\ \A s \in Slots : ~Running(s, {group_id})

(* C21: after any sequence of create_expense and update_expense calls that *)
(* each complete successfully, no stored transaction of kind transfer has  *)
(* a split row.                                                            *)
C21_TransferHasNoSplits ==
    \A i \in 1..Len(expenses) :
        (expenses[i].expense_type = "transfer" /\ Settled(expenses[i].group_id)) =>
            \A k \in 1..Len(expense_splits) :
                expense_splits[k].expense_id # expenses[i].id

(* The same with the calls on the group made one after the other: none     *)
(* began while another call on the group was in progress.                  *)
TransferHasNoSplitsOneAfterTheOther ==
    \A i \in 1..Len(expenses) :
        (/\ expenses[i].expense_type = "transfer"
         /\ Settled(expenses[i].group_id)
         /\ expenses[i].group_id \notin history.disturbed) =>
            \A k \in 1..Len(expense_splits) :
                expense_splits[k].expense_id # expenses[i].id

-----------------------------------------------------------------------------
(* After delete_group (Spec). history.deleted holds the groups for which a *)
(* delete_group ran all four DELETEs and answered NoContent with no other  *)
(* call on the group in progress from its first step to its last.          *)

(* No group row, member or expense of the group is stored. *)
NothingLeftOf(group_id) ==
    /\ group_rows(group_id) = {}
    /\ \A i \in 1..Len(members) : members[i].group_id # group_id
    /\ \A i \in 1..Len(expenses) : expenses[i].group_id # group_id

(* The expenses of the group of which a split row is stored. *)
SplitsLeftOf(group_id) ==
    {expense_splits[k].expense_id :
        k \in {j \in 1..Len(expense_splits) :
                 <<expense_splits[j].expense_id, group_id>> \in history.split_of}}

(* A token for the group still passes the guard. *)
StillVerifies(group_id) ==
    from_request(Header("Bearer ", generate_token(group_id, SomeOf(all), 0)),
                 now).outcome = "Success"

(* The call in slot s was made with a token for a deleted group. *)
ForDeleted(s) ==
    /\ calls[s].pc # "idle"
    /\ calls[s].caller.outcome = "Success"
    /\ calls[s].caller.group_id \in history.deleted

(* C22 as stated: once delete_group has succeeded for G, nothing of G is   *)
(* stored; tokens for G still verify, get_current_group and add_member     *)
(* with one are answered NotFound, and create_expense with one stores      *)
(* nothing.                                                                *)
C22_AfterDeleteGroupAsStated ==
    /\ \A g \in history.deleted :
          NothingLeftOf(g) /\ SplitsLeftOf(g) = {} /\ StillVerifies(g)
    /\ \A s \in Slots :
          ForDeleted(s) =>
              /\ calls[s].op \in {"get_current_group", "add_member"} =>
                    calls[s].pc = "done" /\ calls[s].status = "NotFound"
              /\ calls[s].op = "create_expense" => calls[s].pc = "done"

(* C22, amended: once delete_group has succeeded for G, with no other call *)
(* on G in progress meanwhile, no group row, member or expense of G is     *)
(* stored, and no split row of an expense of G other than those that had   *)
(* no expense row already when delete_group ran its DELETE on the split    *)
(* rows; tokens for G still verify; get_current_group and add_member with  *)
(* one are answered NotFound (InternalServerError when their lookup of the *)
(* group fails, and add_member Forbidden when the token does not carry     *)
(* can_manage_members), and create_expense with one stores nothing. No     *)
(* call with a token for G runs a query, other than a further              *)
(* delete_group.                                                           *)
C22_AfterDeleteGroup ==
    /\ \A g \in history.deleted :
          /\ NothingLeftOf(g)
          /\ SplitsLeftOf(g) \subseteq history.orphaned
          /\ StillVerifies(g)
    /\ \A s \in Slots :
          ForDeleted(s) =>
              /\ calls[s].op = "get_current_group" =>
                    /\ calls[s].pc = "done"
                    /\ calls[s].status \in {"NotFound", "InternalServerError"}
              /\ calls[s].op = "add_member" =>
                    /\ calls[s].pc = "done"
                    /\ IF has(calls[s].caller.permissions, "can_manage_members")
                       THEN calls[s].status \in {"NotFound", "InternalServerError"}
                       ELSE calls[s].status = "Forbidden"
              /\ calls[s].op = "create_expense" =>
                    /\ calls[s].pc = "done"
                    /\ calls[s].status \in {"Forbidden", "InternalServerError"}
              /\ calls[s].pc = "run" => calls[s].op = "delete_group"

C22_Witness ==
    \E s \in Slots :
        /\ calls[s].pc = "done"
        /\ calls[s].op = "get_current_group"
        /\ calls[s].status = "NotFound"
        /\ calls[s].caller.outcome = "Success"
        /\ calls[s].caller.group_id = "g1"
        /\ "g1" \in history.deleted
        /\ <<"e1", "g1">> \in history.split_of
        /\ history.orphaned = {}
        /\ NothingLeftOf("g1")
        /\ members = <<>>
        /\ expenses = <<>>
        /\ expense_splits = <<>>
=============================================================================
